---------------------------- MODULE Spec2Model ----------------------------
(***************************************************************************)
(* A model of the retrieval engine of christy-ai: the retry wrappers       *)
(* around the embedding/generation provider (withRetry, embedWithRetry),   *)
(* the query embedding cache (embedQuery) and the retrieval entry point    *)
(* (retrieveRelevantContext) with its lexical fallback.                    *)
(*                                                                         *)
(* The repository holds several revisions of lib/rag.ts; each revision     *)
(* that a property is about is modelled under its own tag:                 *)
(*   "R2"  src/lib/rag.ts lines 145-315 (cache, lexical fallback)          *)
(*   "R3"  src/lib/rag.ts lines 316-452 (candidate loop, cache)            *)
(*   "R4"  src/unnamed/part_003 (withRetry, pickEmbeddingModel, cache)     *)
(* and the retry wrappers under                                            *)
(*   "chat"   src/pages/api/chat.ts withRetry                              *)
(*   "rag"    src/unnamed/part_003 withRetry                               *)
(*   "embed"  src/unnamed/part_002 embedWithRetry                          *)
(*                                                                         *)
(* Text is a sequence of one-character strings, so that trimming,          *)
(* slicing, tokenising and regular-expression matching are computed.       *)
(***************************************************************************)
EXTENDS Integers, Sequences, FiniteSets, TLC

(***************************************************************************)
(* Bounds of the model.                                                    *)
(***************************************************************************)
\* the largest maxRetries a caller passes to a retry wrapper (the callers
\* of the source pass 6, which lies inside the range)
MaxRetries == 7

(***************************************************************************)
(* Text helpers.                                                           *)
(***************************************************************************)
Digits == {"0", "1", "2", "3", "4", "5", "6", "7", "8", "9"}

\* the characters the regular-expression class \s matches, among those used
Whitespace == {" ", "\t", "\n"}

DigitVal(c) ==
    CASE c = "0" -> 0 [] c = "1" -> 1 [] c = "2" -> 2 [] c = "3" -> 3
      [] c = "4" -> 4 [] c = "5" -> 5 [] c = "6" -> 6 [] c = "7" -> 7
      [] c = "8" -> 8 [] c = "9" -> 9

\* Number(m[1]) of a string of decimal digits
RECURSIVE DecVal(_)
DecVal(ds) ==
    IF ds = <<>> THEN 0
    ELSE 10 * DecVal(SubSeq(ds, 1, Len(ds) - 1)) + DigitVal(ds[Len(ds)])

\* the length of the longest prefix of s made of characters of class
RECURSIVE PrefixLen(_, _)
PrefixLen(s, class) ==
    IF s = <<>> \/ s[1] \notin class THEN 0
    ELSE 1 + PrefixLen(Tail(s), class)

Min(a, b) == IF a <= b THEN a ELSE b

(***************************************************************************)
(* Provider errors.  An error object carries what the wrappers read:       *)
(*   status      err.status (0: the error has no status)                   *)
(*   msg429      err.message contains "429" or "too many requests"         *)
(*   hasDetails  err.errorDetails is an array                              *)
(*   details     the array: each detail has its "@type", and a retryDelay  *)
(*               that is a string (delayIsString) of characters            *)
(***************************************************************************)
RetryInfoType == "type.googleapis.com/google.rpc.RetryInfo"
QuotaFailureType == "type.googleapis.com/google.rpc.QuotaFailure"
HelpType == "type.googleapis.com/google.rpc.Help"

\* d["@type"].includes("RetryInfo"), over the types the provider sends
TypeIncludesRetryInfo(t) == t = RetryInfoType

\* the provider's encoding of a duration of n whole seconds: "<n>s"
RECURSIVE FormatNat(_)
FormatNat(n) ==
    LET d == <<"0", "1", "2", "3", "4", "5", "6", "7", "8", "9">>[(n % 10) + 1]
    IN  IF n < 10 THEN <<d>> ELSE Append(FormatNat(n \div 10), d)

MkRetryInfo(n) ==
    [type |-> RetryInfoType, delayIsString |-> TRUE,
     retryDelay |-> Append(FormatNat(n), "s")]

MkDetail(t, isString, chars) ==
    [type |-> t, delayIsString |-> isString, retryDelay |-> chars]

MkErr(status, msg429, hasDetails, details) ==
    [status |-> status, msg429 |-> msg429,
     hasDetails |-> hasDetails, details |-> details]

NoErr == MkErr(0, FALSE, FALSE, <<>>)

\* the retry hints (whole seconds) the modelled provider sends
HintSeconds == {0, 5, 12, 75}

\* the HTTP statuses the modelled provider fails with (0: none)
FaultStatuses == {429, 500, 503, 404, 0}

\* errorDetails that carry no usable hint
UnhintedDetails ==
    { <<>>,
      << MkDetail(QuotaFailureType, FALSE, <<>>) >>,
      << MkDetail(RetryInfoType, TRUE, <<"1", ".", "5", "s">>) >>,
      << MkDetail(RetryInfoType, FALSE, <<>>) >>,
      << MkDetail(HelpType, TRUE, <<"5", "s">>) >> }

\* A fault is an error together with the hint the provider put in it
\* (hint: the N of "retry after N seconds", -1 when it sent none).
ProviderFaults ==
    { [err |-> MkErr(s, m, FALSE, <<>>), hint |-> -1] :
          s \in FaultStatuses, m \in BOOLEAN }
    \cup { [err |-> MkErr(s, s = 429, TRUE, <<MkRetryInfo(n)>>), hint |-> n] :
          s \in FaultStatuses, n \in HintSeconds }
    \cup { [err |-> MkErr(s, s = 429, TRUE,
                          << MkDetail(QuotaFailureType, FALSE, <<>>),
                             MkDetail(RetryInfoType, TRUE, <<"x">>),
                             MkRetryInfo(n) >>), hint |-> n] :
          s \in {429, 404}, n \in {5} }
    \cup { [err |-> MkErr(s, s = 429, TRUE, d), hint |-> -1] :
          s \in {429, 503, 404}, d \in UnhintedDetails }

(***************************************************************************)
(* parseRetryDelaySeconds (chat.ts 52-63, part_003 70-80).                 *)
(***************************************************************************)
\* retryDelay.match(/^(\d+)\s*s$/i): Number(m[1]), or -1 for no match
MatchRetryDelay(s) ==
    LET n    == PrefixLen(s, Digits)
        rest == SubSeq(s, n + 1, Len(s))
        w    == PrefixLen(rest, Whitespace)
    IN  IF n >= 1 /\ Len(rest) = w + 1 /\ rest[w + 1] \in {"s", "S"}
        THEN DecVal(SubSeq(s, 1, n))
        ELSE -1

\* the loop over errorDetails: the first detail that parses decides
RECURSIVE ParseDetails(_)
ParseDetails(ds) ==
    IF ds = <<>> THEN -1
    ELSE LET d == Head(ds)
             m == IF TypeIncludesRetryInfo(d.type) /\ d.delayIsString
                  THEN MatchRetryDelay(d.retryDelay) ELSE -1
         IN  IF m >= 0 THEN m ELSE ParseDetails(Tail(ds))

\* null is modelled as -1
parseRetryDelaySeconds(err) ==
    IF ~err.hasDetails THEN -1 ELSE ParseDetails(err.details)

(***************************************************************************)
(* The retry wrappers.                                                     *)
(***************************************************************************)
RetryImpls == {"chat", "rag", "embed"}

\* chat.ts 76: status === 429 || status === 500 || status === 503
ChatRetryable(err) == err.status = 429 \/ err.status = 500 \/ err.status = 503

\* part_003 91: status !== 429
RagRetryable(err) == err.status = 429

\* part_002 80-81: the message mentions 429 / too many requests
EmbedRetryable(err) == err.msg429

Retryable(impl, err) ==
    CASE impl = "chat"  -> ChatRetryable(err)
      [] impl = "rag"   -> RagRetryable(err)
      [] impl = "embed" -> EmbedRetryable(err)

\* GivesUp with the comparison off by one (attempt >= maxRetries)
GivesUpOffByOne(impl, att, maxR, err) == ~Retryable(impl, err) \/ att >= maxR

\* the guard of the throw: if (!retryable || attempt > maxRetries) throw
GivesUp(impl, att, maxR, err) == ~Retryable(impl, err) \/ att > maxR

\* WithRetryBackoffMs without the one-second buffer on a hinted delay
WithRetryBackoffMsNoBuffer(att, err) ==
    LET retrySec == parseRetryDelaySeconds(err)
    IN  IF retrySec /= -1 THEN retrySec * 1000
        ELSE Min(60000, 1000 * (2 ^ att))

\* chat.ts 82-86 and part_003 95-99
WithRetryBackoffMs(att, err) ==
    LET retrySec == parseRetryDelaySeconds(err)
    IN  IF retrySec /= -1 THEN (retrySec + 1) * 1000
        ELSE Min(60000, 1000 * (2 ^ att))

\* part_002 91
EmbedWithRetryWaitMs(att) == Min(30000, 1000 * (2 ^ att))

BackoffMs(impl, att, err) ==
    IF impl = "embed" THEN EmbedWithRetryWaitMs(att)
    ELSE WithRetryBackoffMs(att, err)

\* what the wrapper throws: withRetry rethrows err itself; embedWithRetry
\* throws a new Error whose message embeds the old one (no status, no
\* errorDetails)
Surfaced(impl, err) ==
    IF impl = "embed" THEN MkErr(0, err.msg429, FALSE, <<>>) ELSE err

(***************************************************************************)
(* Text operations of lib/rag.ts.                                          *)
(***************************************************************************)
UpperLetters ==
    <<"A", "B", "C", "D", "E", "F", "G", "H", "I", "J", "K", "L", "M",
      "N", "O", "P", "Q", "R", "S", "T", "U", "V", "W", "X", "Y", "Z">>

LowerLetters ==
    <<"a", "b", "c", "d", "e", "f", "g", "h", "i", "j", "k", "l", "m",
      "n", "o", "p", "q", "r", "s", "t", "u", "v", "w", "x", "y", "z">>

\* the regular-expression class [a-z0-9]
LowerAlnum == {LowerLetters[i] : i \in 1..26} \cup Digits

ToLowerChar(c) ==
    IF \E i \in 1..26 : UpperLetters[i] = c
    THEN LowerLetters[CHOOSE i \in 1..26 : UpperLetters[i] = c]
    ELSE c

\* String.prototype.toLowerCase
ToLower(s) == [i \in 1..Len(s) |-> ToLowerChar(s[i])]

\* String.prototype.trim
RECURSIVE TrimEnd(_)
TrimEnd(s) ==
    IF s /= <<>> /\ s[Len(s)] \in Whitespace
    THEN TrimEnd(SubSeq(s, 1, Len(s) - 1)) ELSE s

Trim(s) == TrimEnd(SubSeq(s, PrefixLen(s, Whitespace) + 1, Len(s)))

\* slice(0, end) of a string or an array: a negative end counts from the
\* back, an end past the length stops at the length
SliceTo(s, end) ==
    LET e == IF end < 0 THEN (IF Len(s) + end < 0 THEN 0 ELSE Len(s) + end)
             ELSE Min(end, Len(s))
    IN  SubSeq(s, 1, e)

\* String.prototype.includes
Includes(hay, needle) ==
    \E i \in 0..(Len(hay) - Len(needle)) :
        SubSeq(hay, i + 1, i + Len(needle)) = needle

\* q.split(/[^a-z0-9]+/g).filter(Boolean): the maximal runs of [a-z0-9]
RECURSIVE SplitTerms(_)
SplitTerms(q) ==
    IF q = <<>> THEN <<>>
    ELSE LET n == PrefixLen(q, LowerAlnum)
         IN  IF n = 0 THEN SplitTerms(Tail(q))
             ELSE <<SubSeq(q, 1, n)>> \o SplitTerms(SubSeq(q, n + 1, Len(q)))

RECURSIVE Concat(_)
Concat(ss) == IF ss = <<>> THEN <<>> ELSE Head(ss) \o Concat(Tail(ss))

\* JSON.stringify of a metadata object whose values are strings; the
\* metadata is the sequence of its <<key, value>> pairs in key order
RECURSIVE JsonPairs(_)
JsonPairs(meta) ==
    IF meta = <<>> THEN <<>>
    ELSE (<<"\"">> \o Head(meta)[1] \o <<"\"", ":", "\"">> \o Head(meta)[2]
          \o <<"\"">>)
         \o (IF Len(meta) > 1 THEN <<",">> ELSE <<>>)
         \o JsonPairs(Tail(meta))

JsonStringify(meta) == <<"{">> \o JsonPairs(meta) \o <<"}">>

\* meta[name], or the empty string when the key is absent (falsy either way)
RECURSIVE MetaGet(_, _)
MetaGet(meta, name) ==
    IF meta = <<>> THEN <<>>
    ELSE IF Head(meta)[1] = name THEN Head(meta)[2]
    ELSE MetaGet(Tail(meta), name)

(***************************************************************************)
(* Knowledge-base entries and scoring.                                     *)
(* An entry is [id, text, source, metadata, embedding]; an embedding is a  *)
(* sequence of integers.  Scores are kept in exact integer units: the      *)
(* vector score in hundredths (cosine 1.0 = 100, boost 0.04 = 4), the      *)
(* lexical score in halves (one term = 2, the bonus 1.5 = 3).  The sample  *)
(* vectors have integer norms, so the cosine in hundredths is exact.       *)
(***************************************************************************)
MkEntry(id, source, text, meta, emb) ==
    [id |-> id, source |-> source, text |-> text, metadata |-> meta,
     embedding |-> emb]

\* a ten-dimensional vector
Vec(a, b) == <<a, b, 0, 0, 0, 0, 0, 0, 0, 0>>

RECURSIVE DotTo(_, _, _)
DotTo(a, b, n) == IF n = 0 THEN 0 ELSE DotTo(a, b, n - 1) + a[n] * b[n]

\* Math.sqrt on the squares of the sample norms
ISqrt(n) == CHOOSE r \in 0..n : r * r <= n /\ (r + 1) * (r + 1) > n

\* cosineSim, in hundredths
\* a similarity that leaves the dot product unnormalised
cosineSimUnnormalised(a, b) == 100 * DotTo(a, b, Min(Len(a), Len(b)))

cosineSim(a, b) ==
    LET len   == Min(Len(a), Len(b))
        dot   == DotTo(a, b, len)
        magA  == DotTo(a, a, len)
        magB  == DotTo(b, b, len)
        prod  == ISqrt(magA) * ISqrt(magB)
        denom == IF prod = 0 THEN 1 ELSE prod
    IN  (100 * dot) \div denom

\* one metadata boost: the field is set, and its lower-cased value occurs
\* in the lower-cased query
MetaBoost(meta, name, qLower, bonus) ==
    LET m == ToLower(MetaGet(meta, name))
    IN  IF m /= <<>> /\ Includes(qLower, m) THEN bonus ELSE 0

\* the score of one entry on the vector path (lib/rag.ts 287-306)
VectorScore(queryEmbedding, qLower, entry) ==
    cosineSim(queryEmbedding, entry.embedding)
        + MetaBoost(entry.metadata, <<"m", "o", "d", "e", "l", "_", "n", "a", "m", "e">>, qLower, 4)
        + MetaBoost(entry.metadata, <<"p", "r", "o", "d", "u", "c", "t", "_", "i", "d">>, qLower, 2)

\* the score of one entry in R1 (lib/rag.ts 119-140): a third boost, on
\* the category
VectorScoreR1(queryEmbedding, qLower, entry) ==
    VectorScore(queryEmbedding, qLower, entry)
        + MetaBoost(entry.metadata, <<"c", "a", "t", "e", "g", "o", "r", "y">>, qLower, 1)

\* /(price|cost|\$|stock|available|inventory|doa|warranty)/i.test(query)
PricingKeywords ==
    { <<"p", "r", "i", "c", "e">>, <<"c", "o", "s", "t">>, <<"$">>, <<"s", "t", "o", "c", "k">>, <<"a", "v", "a", "i", "l", "a", "b", "l", "e">>, <<"i", "n", "v", "e", "n", "t", "o", "r", "y">>,
      <<"d", "o", "a">>, <<"w", "a", "r", "r", "a", "n", "t", "y">> }

PricingTest(query) == \E k \in PricingKeywords : Includes(ToLower(query), k)

\* the haystack of an entry: source, text and serialized metadata
Haystack(entry) ==
    ToLower(entry.source \o <<"\n">> \o entry.text \o <<"\n">>
            \o JsonStringify(entry.metadata))

\* a loop that counts the terms of one character too
RECURSIVE CountTermsAnyLength(_, _)
CountTermsAnyLength(terms, hay) ==
    IF terms = <<>> THEN 0
    ELSE (IF Includes(hay, Head(terms)) THEN 1 ELSE 0)
         + CountTermsAnyLength(Tail(terms), hay)

\* the for loop over the terms: one point per term of length >= 2 found
RECURSIVE CountTerms(_, _)
CountTerms(terms, hay) ==
    IF terms = <<>> THEN 0
    ELSE (IF Len(Head(terms)) >= 2 /\ Includes(hay, Head(terms))
          THEN 1 ELSE 0)
         + CountTerms(Tail(terms), hay)

\* the score of one entry on the lexical path, in halves
LexicalScore(query, entry) ==
    2 * CountTerms(SplitTerms(ToLower(query)), Haystack(entry))
        + (IF entry.source = <<"p", "r", "i", "c", "e", "_", "s", "h", "e", "e", "t">> /\ PricingTest(query)
           THEN 3 ELSE 0)

\* Array.prototype.sort with (a, b) => b.score - a.score: descending and
\* stable.  scored is the sequence of [idx, score], idx the entry's
\* position in the knowledge base.
\* an insertion that puts x before the elements of equal score
RECURSIVE InsertBeforeEqual(_, _)
InsertBeforeEqual(sorted, x) ==
    IF sorted = <<>> THEN <<x>>
    ELSE IF Head(sorted).score > x.score
         THEN <<Head(sorted)>> \o InsertBeforeEqual(Tail(sorted), x)
         ELSE <<x>> \o sorted

RECURSIVE InsertDesc(_, _)
InsertDesc(sorted, x) ==
    IF sorted = <<>> THEN <<x>>
    ELSE IF Head(sorted).score >= x.score
         THEN <<Head(sorted)>> \o InsertDesc(Tail(sorted), x)
         ELSE <<x>> \o sorted

RECURSIVE SortDesc(_)
SortDesc(scored) ==
    IF scored = <<>> THEN <<>>
    ELSE InsertDesc(SortDesc(SubSeq(scored, 1, Len(scored) - 1)),
                    scored[Len(scored)])

\* TopEntries of the entries that scored above zero
TopEntriesPositive(scored, topK) ==
    LET top == SliceTo(SelectSeq(SortDesc(scored), LAMBDA x : x.score > 0),
                       topK)
    IN  [i \in 1..Len(top) |-> top[i].idx]

\* TopEntries without the slice
TopEntriesUnsliced(scored, topK) ==
    LET top == SortDesc(scored)
    IN  [i \in 1..Len(top) |-> top[i].idx]

\* scored.slice(0, topK).map((s) => s.entry): the positions of the entries
TopEntries(scored, topK) ==
    LET top == SliceTo(SortDesc(scored), topK)
    IN  [i \in 1..Len(top) |-> top[i].idx]

\* lexicalRetrieve (lib/rag.ts 242-268)
lexicalRetrieve(kb, query, topK) ==
    TopEntries([i \in 1..Len(kb) |->
                   [idx |-> i, score |-> LexicalScore(query, kb[i])]], topK)

\* the vector scoring of retrieveRelevantContext (lib/rag.ts 285-309)
vectorRetrieve(kb, queryEmbedding, query, topK) ==
    TopEntries([i \in 1..Len(kb) |->
                   [idx |-> i,
                    score |-> VectorScore(queryEmbedding, ToLower(query),
                                          kb[i])]], topK)

\* the vector scoring of R1 (lib/rag.ts 117-143)
vectorRetrieveR1(kb, queryEmbedding, query, topK) ==
    TopEntries([i \in 1..Len(kb) |->
                   [idx |-> i,
                    score |-> VectorScoreR1(queryEmbedding, ToLower(query),
                                            kb[i])]], topK)

\* kb.some((e) => Array.isArray(e.embedding) && e.embedding.length > 0)
kbHasEmbeddings(kb) == \E i \in 1..Len(kb) : Len(kb[i].embedding) > 0

(***************************************************************************)
(* Sample knowledge bases (the content of data/rag/knowledge_base.json).   *)
(***************************************************************************)
EntryPrice(emb) ==
    MkEntry("price_p1", <<"p", "r", "i", "c", "e", "_", "s", "h", "e", "e", "t">>, <<"S", "1", "9", " ", "m", "i", "n", "e", "r", " ", "$", "2", "0", "0", "0">>,
            << <<<<"m", "o", "d", "e", "l", "_", "n", "a", "m", "e">>, <<"S", "1", "9">>>>, <<<<"p", "r", "o", "d", "u", "c", "t", "_", "i", "d">>, <<"p", "1">>>> >>, emb)

EntryBook(emb) ==
    MkEntry("marketing_0", <<"m", "a", "r", "k", "e", "t", "i", "n", "g", "_", "b", "o", "o", "k">>, <<"w", "e", " ", "h", "o", "s", "t", " ", "m", "i", "n", "e", "r", "s">>, <<>>, emb)

EntryChat(emb) ==
    MkEntry("chat_0", <<"c", "h", "a", "t">>, <<"p", "r", "i", "c", "e", " ", "o", "f", " ", "h", "o", "s", "t", "i", "n", "g">>,
            << <<<<"c", "a", "t", "e", "g", "o", "r", "y">>, <<"h", "o", "s", "t", "i", "n", "g">>>> >>, emb)

\* The state holds a knowledge base by the name of its content.
\*   "embedded"    every entry embedded
\*   "unembedded"  no entry embedded (every embedding failed at build time)
\*   "empty"       the empty array
KBNames == {"embedded", "unembedded", "empty"}

\* Knowledge bases of three embedded entries for the ranking of an entry
\* against its own vector.  The vectors have whole norms, so that
\* cosineSim is exact on them.
RankKBs ==
    [plain         |-> <<EntryBook(Vec(4, 3)), EntryPrice(Vec(3, 4)),
                         EntryChat(Vec(0, 5))>>,
     boostedFirst  |-> <<EntryPrice(Vec(4, 3)), EntryBook(Vec(3, 4)),
                         EntryChat(Vec(5, 0))>>,
     boostedLast   |-> <<EntryChat(Vec(5, 0)), EntryBook(Vec(3, 4)),
                         EntryPrice(Vec(4, 3))>>,
     parallelFirst |-> <<EntryBook(Vec(6, 8)), EntryPrice(Vec(3, 4)),
                         EntryChat(Vec(4, 3))>>,
     parallelLast  |-> <<EntryBook(Vec(4, 3)), EntryChat(Vec(3, 4)),
                         EntryBook(Vec(6, 8))>>,
     longFirst     |-> <<EntryBook(Vec(5, 12)), EntryChat(Vec(3, 4)),
                         EntryPrice(Vec(4, 3))>>,
     longLast      |-> <<EntryBook(Vec(0, 5)), EntryChat(Vec(3, 4)),
                         EntryBook(Vec(5, 12))>>,
     zeroSecond    |-> <<EntryBook(Vec(4, 3)), EntryChat(Vec(0, 0)),
                         EntryPrice(Vec(3, 4))>>,
     shortFirst    |-> <<EntryBook(<<3, 4>>), EntryChat(Vec(3, 4)),
                         EntryPrice(Vec(4, 3))>>,
     orthogonal    |-> <<EntryPrice(Vec(0, 5)), EntryBook(Vec(5, 0)),
                         EntryChat(Vec(0, 5))>>]

RankKBNames == DOMAIN RankKBs

KBContent(name) ==
    CASE name = "embedded" ->
            <<EntryBook(Vec(0, 1)), EntryPrice(Vec(1, 0)), EntryChat(Vec(3, 4))>>
      [] name = "unembedded" ->
            <<EntryBook(<<>>), EntryPrice(<<>>), EntryChat(<<>>)>>
      [] name \in RankKBNames -> RankKBs[name]
      [] OTHER -> <<>>

\* the size of the sample knowledge bases that have entries
KBSize == Len(KBContent("embedded"))

(***************************************************************************)
(* The scoring of the revision of lib/rag.ts in part_002 158-321 (R6):     *)
(* larger metadata boosts and, for price sheet entries, a category boost.  *)
(***************************************************************************)
MinerKeywords ==
    { <<"s", "1", "9">>, <<"s", "2", "1">>, <<"m", "5", "0">>, <<"m", "6", "0">>, <<"w", "h", "a", "t", "s", "m", "i", "n", "e", "r">>, <<"m", "i", "n", "i", "n", "g">>,
      <<"a", "s", "i", "c">>, <<"h", "a", "s", "h", "r", "a", "t", "e">>, <<"t", "h", "/", "s">> }

TransformerKeywords ==
    { <<"t", "r", "a", "n", "s", "f", "o", "r", "m", "e", "r">>, <<"k", "v", "a">>, <<"m", "v", "a">>, <<"p", "a", "d", "m", "o", "u", "n", "t">>, <<"w", "y", "e">>, <<"d", "e", "l", "t", "a">>,
      <<"t", "a", "p">> }

HostingKeywords ==
    { <<"h", "o", "s", "t", "i", "n", "g">>, <<"c", "o", "l", "o", "c", "a", "t", "i", "o", "n">>, <<"c", "o", "l", "o">>, <<"f", "a", "c", "i", "l", "i", "t", "y">> }

\* /.../i.test(query) for an alternation of the keywords
KeywordTest(keywords, query) ==
    \E k \in keywords : Includes(ToLower(query), k)

\* the boost on the category of a price sheet entry
CategoryBoostR6(query, entry) ==
    LET category == ToLower(MetaGet(entry.metadata, <<"c", "a", "t", "e", "g", "o", "r", "y">>))
    IN  IF entry.source /= <<"p", "r", "i", "c", "e", "_", "s", "h", "e", "e", "t">> THEN 0
        ELSE (IF KeywordTest(MinerKeywords, query)
                 /\ category = <<"m", "i", "n", "e", "r">> THEN 5 ELSE 0)
           + (IF KeywordTest(TransformerKeywords, query)
                 /\ category = <<"t", "r", "a", "n", "s", "f", "o", "r", "m", "e", "r">> THEN 6 ELSE 0)
           + (IF KeywordTest(HostingKeywords, query)
                 /\ category = <<"h", "o", "s", "t", "i", "n", "g">> THEN 4 ELSE 0)

\* the score of one entry in R6 (part_002 268-314)
VectorScoreR6(queryEmbedding, query, entry) ==
    cosineSim(queryEmbedding, entry.embedding)
        + MetaBoost(entry.metadata, <<"m", "o", "d", "e", "l", "_", "n", "a", "m", "e">>, ToLower(query), 6)
        + MetaBoost(entry.metadata, <<"p", "r", "o", "d", "u", "c", "t", "_", "i", "d">>, ToLower(query), 3)
        + CategoryBoostR6(query, entry)
(***************************************************************************)
(* The provider, as embedQuery sees it.  A response is what one            *)
(* embedContent call does: it resolves with a full vector ("ok"), with a   *)
(* vector of fewer than ten dimensions ("short"), with no vector           *)
(* ("empty"), or it rejects with an HTTP status ("err").                   *)
(***************************************************************************)
RespOk == [kind |-> "ok", status |-> 200]
RespShort == [kind |-> "short", status |-> 200]
RespEmpty == [kind |-> "empty", status |-> 200]
RespErr(s) == [kind |-> "err", status |-> s]

\* the vector the provider computes for a text: a fixed function of the
\* text, different for texts of different length
ProviderVec(text) ==
    CASE Len(text) % 3 = 0 -> Vec(1, 0)
      [] Len(text) % 3 = 1 -> Vec(0, 1)
      [] OTHER             -> Vec(3, 4)

\* result?.embedding?.values || []
RespValues(resp, text) ==
    CASE resp.kind = "ok"    -> ProviderVec(text)
      [] resp.kind = "short" -> SubSeq(ProviderVec(text), 1, 3)
      [] OTHER               -> <<>>

\* the error object of a rejected call
RespError(resp) ==
    IF resp.kind = "err"
    THEN MkErr(resp.status, resp.status = 429, FALSE, <<>>)
    ELSE NoErr

(***************************************************************************)
(* Bounds that stand for constants of the source too large to enumerate.   *)
(***************************************************************************)
\* QUERY_EMBED_CACHE_MAX: 200 in lib/rag.ts (250 in part_003), scaled down
QUERY_EMBED_CACHE_MAX == 2

\* the bound of the cache key, slice(0, 5000) in lib/rag.ts, scaled down
KeyMaxLen == 12

\* the default of withRetry's maxRetries parameter
DefaultMaxRetries == 6

(***************************************************************************)
(* QUERY_EMBED_CACHE: a Map, modelled as the sequence of its [key, vec]    *)
(* entries in insertion order.                                             *)
(***************************************************************************)
CacheKeys(cache) == {cache[i].key : i \in 1..Len(cache)}

CacheIndex(cache, key) ==
    IF \E i \in 1..Len(cache) : cache[i].key = key
    THEN CHOOSE i \in 1..Len(cache) : cache[i].key = key
    ELSE 0

\* Map.prototype.set: a present key keeps its place, a new key goes last
CacheSet(cache, key, vec) ==
    LET i == CacheIndex(cache, key)
    IN  IF i > 0 THEN [cache EXCEPT ![i].vec = vec]
        ELSE Append(cache, [key |-> key, vec |-> vec])

\* lib/rag.ts 228-233: if (size > MAX) { firstKey = keys().next().value;
\* if (firstKey !== undefined) delete(firstKey) }
EvictIfDefined(cache) ==
    IF Len(cache) > QUERY_EMBED_CACHE_MAX THEN Tail(cache) ELSE cache

\* lib/rag.ts 402-405 and part_003 163-167: if (size > MAX) { ...
\* if (firstKey) delete(firstKey) }: the empty string is falsy
EvictIfTruthy(cache) ==
    IF Len(cache) > QUERY_EMBED_CACHE_MAX /\ cache[1].key /= <<>>
    THEN Tail(cache) ELSE cache

\* One use of a model by embedQuery: n embedContent requests to the model
\* (more than one when withRetry repeated the request), as a probe ("ping")
\* or for the text; ok when the last of them gave a usable answer.
Req(model, probe, ok, n) ==
    [model |-> model, probe |-> probe, ok |-> ok, n |-> n]

\* What one embedQuery call did:
\*   threw     it threw instead of returning
\*   vec       the vector returned
\*   cache     QUERY_EMBED_CACHE afterwards
\*   calls     embedContent requests made
\*   hit       the vector came from the cache
\*   key       the cache key computed
\*   sel       SELECTED_EMBED_MODEL afterwards
\*   resolved  some embedContent request resolved
\*   reqs      the models it used, in order
EQ(threw, vec, cache, calls, hit, key, sel, resolved, reqs) ==
    [threw |-> threw, vec |-> vec, cache |-> cache, calls |-> calls,
     hit |-> hit, key |-> key, sel |-> sel, resolved |-> resolved,
     reqs |-> reqs]

\* the cache key of lib/rag.ts: text.trim().slice(0, 5000)
QueryKey(text) == SliceTo(Trim(text), KeyMaxLen)

(***************************************************************************)
(* embedQuery, revision R1 (lib/rag.ts 61-107): no cache, no retry, the    *)
(* model picked once.                                                      *)
(***************************************************************************)
\* EMBEDDING_MODEL_CANDIDATES (lib/rag.ts 20-25)
EmbeddingModelCandidatesR1 ==
    <<"models/text-embedding-004", "models/gemini-embedding-001",
      "models/text-embedding-001", "models/embedding-001">>

\* tryEmbedOnce succeeds on a vector of at least ten dimensions
PingOk(resp) == resp.kind = "ok"

\* the for loop of pickEmbeddingModel from candidate i on; probes[i] is the
\* provider's response to the probe of candidate i
RECURSIVE ProbeCandidatesR1(_, _, _, _)
ProbeCandidatesR1(probes, i, resolved, reqs) ==
    IF i > Len(EmbeddingModelCandidatesR1)
    THEN [threw |-> TRUE, sel |-> "", resolved |-> resolved, reqs |-> reqs]
    ELSE LET m == EmbeddingModelCandidatesR1[i]
         IN  IF PingOk(probes[i])
             THEN [threw |-> FALSE, sel |-> m, resolved |-> TRUE,
                   reqs |-> Append(reqs, Req(m, TRUE, TRUE, 1))]
             ELSE ProbeCandidatesR1(probes, i + 1,
                      resolved \/ probes[i].kind /= "err",
                      Append(reqs, Req(m, TRUE, FALSE, 1)))

\* pickEmbeddingModel (lib/rag.ts 76-98)
PickEmbeddingModelR1(selected, override, probes) ==
    IF selected /= ""
    THEN [threw |-> FALSE, sel |-> selected, resolved |-> FALSE,
          reqs |-> <<>>]
    ELSE IF override /= ""
    THEN [threw |-> ~PingOk(probes[1]),
          sel |-> IF PingOk(probes[1]) THEN override ELSE "",
          resolved |-> probes[1].kind /= "err",
          reqs |-> <<Req(override, TRUE, PingOk(probes[1]), 1)>>]
    ELSE ProbeCandidatesR1(probes, 1, FALSE, <<>>)

\* embedQuery (lib/rag.ts 100-107); resp is the provider's response to the
\* request for the text
EmbedQueryR1(selected, hasKey, override, text, probes, resp) ==
    IF ~hasKey THEN EQ(TRUE, <<>>, <<>>, 0, FALSE, text, selected, FALSE, <<>>)
    ELSE
    LET pick == PickEmbeddingModelR1(selected, override, probes)
    IN  IF pick.threw
        THEN EQ(TRUE, <<>>, <<>>, Len(pick.reqs), FALSE, text, pick.sel,
                pick.resolved, pick.reqs)
        ELSE IF resp.kind = "err"
        THEN EQ(TRUE, <<>>, <<>>, Len(pick.reqs) + 1, FALSE, text, pick.sel,
                pick.resolved,
                Append(pick.reqs, Req(pick.sel, FALSE, FALSE, 1)))
        ELSE EQ(FALSE, RespValues(resp, text), <<>>, Len(pick.reqs) + 1,
                FALSE, text, pick.sel, TRUE,
                Append(pick.reqs, Req(pick.sel, FALSE, TRUE, 1)))

(***************************************************************************)
(* embedQuery, revision R2 (lib/rag.ts 209-236)                            *)
(***************************************************************************)
\* EMBED_MODEL (lib/rag.ts 162-164) with the environment variables unset
EmbedModelR2 == "models/text-embedding-001"

\* an embedQuery whose cache is kept in order of use: a hit moves its key to
\* the end
EmbedQueryR2HitRefreshes(cache, hasKey, text, resp) ==
    LET key == QueryKey(text)
        i   == CacheIndex(cache, key)
        emb == RespValues(resp, text)
    IN  IF i > 0
        THEN EQ(FALSE, cache[i].vec,
                Append(SelectSeq(cache, LAMBDA c : c.key /= key), cache[i]),
                0, TRUE, key, "", FALSE, <<>>)
        ELSE IF ~hasKey
        THEN EQ(TRUE, <<>>, cache, 0, FALSE, key, "", FALSE, <<>>)
        ELSE IF resp.kind = "err" \/ Len(emb) = 0
        THEN EQ(TRUE, <<>>, cache, 1, FALSE, key, "", resp.kind /= "err",
                <<Req(EmbedModelR2, FALSE, FALSE, 1)>>)
        ELSE EQ(FALSE, emb, EvictIfDefined(CacheSet(cache, key, emb)), 1,
                FALSE, key, "", TRUE, <<Req(EmbedModelR2, FALSE, TRUE, 1)>>)

EmbedQueryR2(cache, hasKey, text, resp) ==
    LET key == QueryKey(text)
        i   == CacheIndex(cache, key)
        emb == RespValues(resp, text)
    IN  IF i > 0
        THEN EQ(FALSE, cache[i].vec, cache, 0, TRUE, key, "", FALSE, <<>>)
        ELSE IF ~hasKey
        THEN EQ(TRUE, <<>>, cache, 0, FALSE, key, "", FALSE, <<>>)
        ELSE IF resp.kind = "err"
        THEN EQ(TRUE, <<>>, cache, 1, FALSE, key, "", FALSE,
                <<Req(EmbedModelR2, FALSE, FALSE, 1)>>)
        ELSE IF Len(emb) = 0
        THEN EQ(TRUE, <<>>, cache, 1, FALSE, key, "", TRUE,
                <<Req(EmbedModelR2, FALSE, FALSE, 1)>>)
        ELSE EQ(FALSE, emb, EvictIfDefined(CacheSet(cache, key, emb)), 1,
                FALSE, key, "", TRUE, <<Req(EmbedModelR2, FALSE, TRUE, 1)>>)

(***************************************************************************)
(* embedQuery, revision R3 (lib/rag.ts 380-419)                            *)
(***************************************************************************)
\* EMBED_MODEL_CANDIDATES (lib/rag.ts 332-337)
EmbedModelCandidatesR3(override) ==
    IF override /= ""
    THEN <<override, "models/gemini-embedding-001", "models/embedding-001">>
    ELSE <<"models/gemini-embedding-001", "models/embedding-001">>

\* the for loop over the candidates cands, from candidate i on; resps[i] is
\* the provider's response to the request for candidate i
RECURSIVE TryCandidatesR3(_, _, _, _, _, _, _, _)
TryCandidatesR3(cache, hasKey, key, cands, resps, i, resolved, reqs) ==
    IF i > Len(cands)
    THEN EQ(TRUE, <<>>, cache, Len(reqs), FALSE, key, "", resolved, reqs)
    ELSE IF ~hasKey
         THEN TryCandidatesR3(cache, hasKey, key, cands, resps, i + 1,
                              resolved, reqs)
    ELSE LET vec == RespValues(resps[i], key)
         IN  IF resps[i].kind = "err"
             THEN TryCandidatesR3(cache, hasKey, key, cands, resps, i + 1,
                      resolved, Append(reqs, Req(cands[i], FALSE, FALSE, 1)))
             ELSE IF Len(vec) < 10
             THEN TryCandidatesR3(cache, hasKey, key, cands, resps, i + 1,
                      TRUE, Append(reqs, Req(cands[i], FALSE, FALSE, 1)))
             ELSE EQ(FALSE, vec, EvictIfTruthy(CacheSet(cache, key, vec)),
                     Len(reqs) + 1, FALSE, key, "", TRUE,
                     Append(reqs, Req(cands[i], FALSE, TRUE, 1)))

EmbedQueryR3(cache, hasKey, override, text, resps) ==
    LET key == QueryKey(text)
        i   == CacheIndex(cache, key)
    IN  IF i > 0
        THEN EQ(FALSE, cache[i].vec, cache, 0, TRUE, key, "", FALSE, <<>>)
        ELSE TryCandidatesR3(cache, hasKey, key,
                             EmbedModelCandidatesR3(override), resps, 1,
                             FALSE, <<>>)

(***************************************************************************)
(* embedQuery, revision R4 (part_003 82-170)                               *)
(***************************************************************************)
\* EMBEDDING_MODEL_CANDIDATES (part_003 19-26)
EmbeddingModelCandidatesR4 ==
    <<"models/gemini-embedding-001", "models/embedding-001",
      "models/text-embedding-001">>

\* One run of withRetry(fn) of part_003 as a function of the provider's
\* behaviour: script[k] is its response to the k-th request, the last
\* response repeating.  fn is tryEmbedPing ("ping": a vector of fewer than
\* ten dimensions throws a plain Error) or model.embedContent ("embed").
\* att counts the failures so far.  The sleeps between attempts leave no
\* trace in the result.
RECURSIVE WithRetryRun(_, _, _, _)
WithRetryRun(fn, maxR, script, att) ==
    LET resp  == script[Min(att + 1, Len(script))]
        fails == resp.kind = "err" \/ (fn = "ping" /\ resp.kind /= "ok")
    IN  IF ~fails
        THEN [ok |-> TRUE, resp |-> resp, calls |-> att + 1,
              resolved |-> TRUE]
        ELSE IF GivesUp("rag", att + 1, maxR, RespError(resp))
        THEN [ok |-> FALSE, resp |-> resp, calls |-> att + 1,
              resolved |-> resp.kind /= "err"]
        ELSE WithRetryRun(fn, maxR, script, att + 1)

\* the for loop of pickEmbeddingModel from candidate i on; probes[i] is
\* the provider's script for the probe of candidate i
RECURSIVE ProbeCandidatesR4(_, _, _, _, _)
ProbeCandidatesR4(probes, i, calls, resolved, reqs) ==
    IF i > Len(EmbeddingModelCandidatesR4)
    THEN [threw |-> FALSE, sel |-> "models/gemini-embedding-001",
          calls |-> calls, resolved |-> resolved, reqs |-> reqs]
    ELSE LET run == WithRetryRun("ping", DefaultMaxRetries, probes[i], 0)
             m   == EmbeddingModelCandidatesR4[i]
         IN  IF run.ok
             THEN [threw |-> FALSE, sel |-> m,
                   calls |-> calls + run.calls, resolved |-> TRUE,
                   reqs |-> Append(reqs, Req(m, TRUE, TRUE, run.calls))]
             ELSE ProbeCandidatesR4(probes, i + 1, calls + run.calls,
                      resolved \/ run.resolved,
                      Append(reqs, Req(m, TRUE, FALSE, run.calls)))

\* pickEmbeddingModel (part_003 118-140)
PickEmbeddingModelR4(selected, override, probes) ==
    IF selected /= ""
    THEN [threw |-> FALSE, sel |-> selected, calls |-> 0,
          resolved |-> FALSE, reqs |-> <<>>]
    ELSE IF override /= ""
    THEN LET run == WithRetryRun("ping", DefaultMaxRetries, probes[1], 0)
         IN  [threw |-> ~run.ok, sel |-> IF run.ok THEN override ELSE "",
              calls |-> run.calls, resolved |-> run.resolved,
              reqs |-> <<Req(override, TRUE, run.ok, run.calls)>>]
    ELSE ProbeCandidatesR4(probes, 1, 0, FALSE, <<>>)

\* embedQuery (part_003 142-170): the key is the text as given
EmbedQueryR4(cache, selected, hasKey, override, text, probes, script) ==
    LET i == CacheIndex(cache, text)
    IN  IF i > 0
        THEN EQ(FALSE, cache[i].vec, cache, 0, TRUE, text, selected, FALSE,
                <<>>)
        ELSE IF ~hasKey
        THEN EQ(TRUE, <<>>, cache, 0, FALSE, text, selected, FALSE, <<>>)
        ELSE
        LET pick == PickEmbeddingModelR4(selected, override, probes)
            run  == WithRetryRun("embed", DefaultMaxRetries, script, 0)
            emb  == RespValues(run.resp, text)
            reqs == Append(pick.reqs, Req(pick.sel, FALSE, run.ok, run.calls))
        IN  IF pick.threw
            THEN EQ(TRUE, <<>>, cache, pick.calls, FALSE, text, pick.sel,
                    pick.resolved, pick.reqs)
            ELSE IF ~run.ok
            THEN EQ(TRUE, <<>>, cache, pick.calls + run.calls, FALSE, text,
                    pick.sel, pick.resolved \/ run.resolved, reqs)
            ELSE EQ(FALSE, emb, EvictIfTruthy(CacheSet(cache, text, emb)),
                    pick.calls + run.calls, FALSE, text, pick.sel, TRUE, reqs)

(***************************************************************************)
(* embedQuery, revision R5 (part_002 65-116)                               *)
(***************************************************************************)
\* EMBED_MODEL (part_002 17-18) with the environment variable unset
EmbedModelR5 == "models/gemini-embedding-001"

\* One run of embedWithRetry (part_002 65-95) as a function of the
\* provider's behaviour: script[k] is its response to the k-th request, the
\* last response repeating; att counts the failures so far.
RECURSIVE EmbedWithRetryRun(_, _, _)
EmbedWithRetryRun(maxR, script, att) ==
    LET resp == script[Min(att + 1, Len(script))]
    IN  IF resp.kind /= "err"
        THEN [ok |-> TRUE, resp |-> resp, calls |-> att + 1,
              resolved |-> TRUE]
        ELSE IF GivesUp("embed", att + 1, maxR, RespError(resp))
        THEN [ok |-> FALSE, resp |-> resp, calls |-> att + 1,
              resolved |-> FALSE]
        ELSE EmbedWithRetryRun(maxR, script, att + 1)

\* part_002 107-113: if (size > MAX) { first = keys().next();
\* if (!first.done) delete(first.value) }
EvictIfNotDone(cache) ==
    IF Len(cache) > QUERY_EMBED_CACHE_MAX THEN Tail(cache) ELSE cache

\* embedQuery (part_002 97-116): the key is the trimmed text in lower
\* case, the provider is given the text itself
EmbedQueryR5(cache, hasKey, text, script) ==
    LET key == ToLower(Trim(text))
        i   == CacheIndex(cache, key)
        run == EmbedWithRetryRun(DefaultMaxRetries, script, 0)
        emb == RespValues(run.resp, text)
    IN  IF key = <<>>
        THEN EQ(FALSE, <<>>, cache, 0, FALSE, key, "", FALSE, <<>>)
        ELSE IF i > 0
        THEN EQ(FALSE, cache[i].vec, cache, 0, TRUE, key, "", FALSE, <<>>)
        ELSE IF ~hasKey
        THEN EQ(TRUE, <<>>, cache, 0, FALSE, key, "", FALSE, <<>>)
        ELSE IF ~run.ok
        THEN EQ(TRUE, <<>>, cache, run.calls, FALSE, key, "", FALSE,
                <<Req(EmbedModelR5, FALSE, FALSE, run.calls)>>)
        ELSE EQ(FALSE, emb, EvictIfNotDone(CacheSet(cache, key, emb)),
                run.calls, FALSE, key, "", TRUE,
                <<Req(EmbedModelR5, FALSE, TRUE, run.calls)>>)
VARIABLES
    \* ---- one run of a retry wrapper
    rImpl,        \* the wrapper being run
    maxRetries,   \* its maxRetries argument
    attempt,      \* its local counter
    rpc,          \* "idle" | "call" (awaiting fn) | "sleep" | "returned" | "thrown"
    lastErr,      \* the error caught last
    hintN,        \* the hint the provider put in lastErr (-1: none)
    backoffMs,    \* the delay of the sleep in progress / last slept
    nCalls,       \* invocations of fn by this run
    thrownErr,    \* the error the run ended with
    allRetryable, \* every fn call of this run failed with 429, 500 or 503
    warned,       \* console.warn of this run: [n, attempt, seconds], n the
                  \* number of lines so far, the rest what the last one says
    \* ---- the serving process of lib/rag.ts
    rev,          \* the revision of lib/rag.ts that runs
    hasKey,       \* process.env.GEMINI_API_KEY is set
    envEmbedModel,\* process.env.GEMINI_EMBED_MODEL ("" when unset)
    artifact,     \* data/rag/knowledge_base.json: [exists, kb]
    KB_CACHE,     \* [loaded, kb, origin]; loaded = FALSE is null
    QUERY_EMBED_CACHE,    \* the Map, in insertion order
    SELECTED_EMBED_MODEL, \* "" is null
    provOk,       \* some embedContent request has resolved so far
    eq,           \* the embedQuery call of the last operation, if it made one
    last,         \* the last retrieveRelevantContext call and what it did
    \* ---- one run of scripts/build-knowledge-base.mjs
    scriptRev,    \* the revision of the script that runs
    envKey,       \* GEMINI_API_KEY is set in .env.local
    inputs,       \* the input files: source |-> [exists, ok, units]
    pc,           \* "start" | the source being built | "write" | "done" | "failed"
    BUILD_SELECTED_EMBED_MODEL, \* SELECTED_EMBED_MODEL of the script ("" is null)
    entries,      \* the entries built so far, in order
    outFile,      \* knowledge_base.json as the run left it: [written, kb]
    failure,      \* what main().catch caught ("" while nothing was thrown)
    rerun,        \* the script has run before on these files
    observed,     \* what the provider answered so far: {[model, text, resp]}
    readKB,       \* what loadKB of a serving process found at the artifact path
    \* ---- one call of a function that keeps no state
    callFn,       \* the function called
    callArg,      \* its arguments
    callRet,      \* [done, value]: what it returned, once it has
    callLocal,    \* its local variables while it runs, if it runs in steps
    \* ---- the caller of a retrieval
    cancelled,    \* the caller has given up on the retrieval in progress
    requests      \* per concurrent request: where it is in pickEmbeddingModel

retryVars == <<rImpl, maxRetries, attempt, rpc, lastErr, hintN, backoffMs,
               nCalls, thrownErr, allRetryable, warned>>

ragVars == <<rev, hasKey, envEmbedModel, artifact, KB_CACHE,
             QUERY_EMBED_CACHE, SELECTED_EMBED_MODEL, provOk, eq, last>>

buildVars == <<scriptRev, envKey, inputs, pc, BUILD_SELECTED_EMBED_MODEL,
               entries, outFile, failure, rerun, observed, readKB>>

callVars == <<callFn, callArg, callRet, callLocal>>

callerVars == <<cancelled, requests>>

vars == <<retryVars, ragVars, buildVars, callVars, callerVars>>

NoArtifact == [exists |-> FALSE, kb |-> "empty"]

\* nothing was written to the console
NoWarning == [n |-> 0, attempt |-> 0, seconds |-> 0]

\* the console.warn before `await sleep(backoffMs)`: withRetry of chat.ts
\* and of lib/rag.ts write `retry ${attempt}/${maxRetries} in
\* ${Math.round(backoffMs / 1000)}s`; embedWithRetry writes nothing
Warn(impl, w, att, ms) ==
    IF impl = "embed" THEN w
    ELSE [n |-> w.n + 1, attempt |-> att, seconds |-> (ms + 500) \div 1000]

NotLoaded == [loaded |-> FALSE, kb |-> "empty", origin |-> "none"]

NoEmbedCall ==
    [done |-> FALSE, text |-> <<>>, key |-> <<>>, threw |-> FALSE,
     vec |-> <<>>, calls |-> 0, hit |-> FALSE, reqs |-> <<>>]

NoRetrieveCall ==
    [done |-> FALSE, query |-> <<>>, topK |-> 0, threw |-> FALSE,
     result |-> <<>>, path |-> "none", calls |-> 0]

\* no retry wrapper has run
RetryIdle ==
    /\ rImpl = "chat"
    /\ maxRetries = 0
    /\ attempt = 0
    /\ rpc = "idle"
    /\ lastErr = NoErr
    /\ hintN = -1
    /\ backoffMs = 0
    /\ nCalls = 0
    /\ thrownErr = NoErr
    /\ allRetryable = TRUE
    /\ warned = NoWarning

\* the most requests the server handles at a time
MaxRequests == 3

Requests == 1..MaxRequests

\* a request that has not reached pickEmbeddingModel: pc is where it is
\* ("idle", "probe", "returned", "threw"), i the candidate whose probe it
\* awaits, model what pickEmbeddingModel returned to it
IdleRequest == [pc |-> "idle", i |-> 0, model |-> ""]

\* no caller has cancelled and no request is in progress
CallerIdle ==
    /\ cancelled = FALSE
    /\ requests = [p \in Requests |-> IdleRequest]

\* no such call is made
CallIdle ==
    /\ callFn = "none"
    /\ callArg = <<>>
    /\ callRet = [done |-> FALSE, value |-> <<>>]
    /\ callLocal = <<>>

\* the build script is not run
BuildIdle ==
    /\ scriptRev = "B1"
    /\ envKey = FALSE
    /\ inputs = <<>>
    /\ pc = "idle"
    /\ BUILD_SELECTED_EMBED_MODEL = ""
    /\ entries = <<>>
    /\ outFile = [written |-> FALSE, kb |-> <<>>]
    /\ failure = ""
    /\ rerun = FALSE
    /\ observed = {}
    /\ readKB = [done |-> FALSE, raw |-> "none"]

\* the serving process has handled nothing
RagIdle ==
    /\ KB_CACHE = NotLoaded
    /\ QUERY_EMBED_CACHE = <<>>
    /\ SELECTED_EMBED_MODEL = ""
    /\ provOk = FALSE
    /\ eq = NoEmbedCall
    /\ last = NoRetrieveCall

InitRetry ==
    /\ RetryIdle
    /\ RagIdle
    /\ BuildIdle
    /\ CallIdle
    /\ CallerIdle
    /\ rev = "R2" /\ hasKey = TRUE /\ envEmbedModel = ""
    /\ artifact = NoArtifact

\* a caller invokes the wrapper: let attempt = 0, then the first await fn()
RetryInvoke ==
    /\ rpc \in {"idle", "returned", "thrown"}
    /\ \E impl \in RetryImpls, m \in 0..MaxRetries :
          /\ rImpl' = impl
          /\ maxRetries' = m
    /\ attempt' = 0
    /\ rpc' = "call"
    /\ lastErr' = NoErr
    /\ hintN' = -1
    /\ backoffMs' = 0
    /\ nCalls' = 0
    /\ thrownErr' = NoErr
    /\ allRetryable' = TRUE
    /\ warned' = NoWarning
    /\ UNCHANGED <<ragVars, buildVars, callVars, callerVars>>

\* await fn() resolves: return
RetryFnResolves ==
    /\ rpc = "call"
    /\ rpc' = "returned"
    /\ nCalls' = nCalls + 1
    /\ allRetryable' = FALSE
    /\ UNCHANGED <<rImpl, maxRetries, attempt, lastErr, hintN, backoffMs,
                   thrownErr, warned>>
    /\ UNCHANGED <<ragVars, buildVars, callVars, callerVars>>

\* await fn() rejects with one of faults: the catch block, up to the throw
\* or the await sleep
RetryFnRejectsWith(faults) ==
    /\ rpc = "call"
    /\ \E f \in faults :
          LET att == attempt + 1 IN
          /\ attempt' = att
          /\ nCalls' = nCalls + 1
          /\ lastErr' = f.err
          /\ hintN' = f.hint
          /\ allRetryable' = (allRetryable /\ f.err.status \in {429, 500, 503})
          /\ IF GivesUp(rImpl, att, maxRetries, f.err)
             THEN /\ rpc' = "thrown"
                  /\ thrownErr' = Surfaced(rImpl, f.err)
                  /\ UNCHANGED <<backoffMs, warned>>
             ELSE /\ rpc' = "sleep"
                  /\ backoffMs' = BackoffMs(rImpl, att, f.err)
                  /\ warned' = Warn(rImpl, warned, att,
                                    BackoffMs(rImpl, att, f.err))
                  /\ UNCHANGED thrownErr
    /\ UNCHANGED <<rImpl, maxRetries>>
    /\ UNCHANGED <<ragVars, buildVars, callVars, callerVars>>

RetryFnRejects == RetryFnRejectsWith(ProviderFaults)

\* the timer of sleep(backoffMs) fires: next iteration of while (true)
RetrySleepDone ==
    /\ rpc = "sleep"
    /\ rpc' = "call"
    /\ UNCHANGED <<rImpl, maxRetries, attempt, lastErr, hintN, backoffMs,
                   nCalls, thrownErr, allRetryable, warned>>
    /\ UNCHANGED <<ragVars, buildVars, callVars, callerVars>>

NextRetry ==
    \/ RetryInvoke
    \/ RetryFnResolves
    \/ RetryFnRejects
    \/ RetrySleepDone

SpecRetry == InitRetry /\ [][NextRetry]_vars

\* the event loop settles every pending provider call and fires every timer
SpecRetryFair ==
    /\ SpecRetry
    /\ WF_vars(RetryFnResolves \/ RetryFnRejects)
    /\ WF_vars(RetrySleepDone)



(***************************************************************************)
(* Specification SpecCancel: one run of a retry wrapper whose caller may   *)
(* give up (a timeout, a closed connection) while the run is in progress.  *)
(* No function of the repository takes a cancellation signal, so giving up *)
(* changes nothing in the run.                                             *)
(***************************************************************************)
InitCancel ==
    /\ RagIdle
    /\ BuildIdle
    /\ CallIdle
    /\ CallerIdle
    /\ rev = "R2" /\ hasKey = TRUE /\ envEmbedModel = ""
    /\ artifact = NoArtifact
    /\ rImpl \in RetryImpls
    /\ maxRetries \in 0..MaxRetries
    /\ attempt = 0
    /\ rpc = "call"
    /\ lastErr = NoErr
    /\ hintN = -1
    /\ backoffMs = 0
    /\ nCalls = 0
    /\ thrownErr = NoErr
    /\ allRetryable = TRUE
    /\ warned = NoWarning

\* the caller cancels while a provider call or a backoff sleep is in flight
Cancel ==
    /\ rpc \in {"call", "sleep"}
    /\ ~cancelled
    /\ cancelled' = TRUE
    /\ UNCHANGED requests
    /\ UNCHANGED <<retryVars, ragVars, buildVars, callVars>>

NextCancel ==
    \/ RetryFnResolves
    \/ RetryFnRejects
    \/ RetrySleepDone
    \/ Cancel

SpecCancel == InitCancel /\ [][NextCancel]_vars
(***************************************************************************)
(* The serving process of lib/rag.ts.  Five of the revisions of the file   *)
(* in the repository are modelled:                                         *)
(*   "R1"  lib/rag.ts 1-144   (model picked once, no cache, no retry)      *)
(*   "R2"  lib/rag.ts 145-315 (single model, lexical fallback)             *)
(*   "R3"  lib/rag.ts 316-452 (candidate loop on every miss)               *)
(*   "R4"  part_003           (model selected once, withRetry)             *)
(*   "R5"  part_002 1-157     (single model, embedWithRetry, key in lower  *)
(*                             case); its embedQuery only                  *)
(***************************************************************************)
Revisions == {"R1", "R2", "R3", "R4"}

\* the revisions whose embedQuery is modelled
CacheRevisions == Revisions \cup {"R5"}

\* the model override of the environment (EMBEDDING_MODEL in R1,
\* GEMINI_EMBED_MODEL in the others) as the revision reads it; R2 is modelled with the
\* variable unset, since the name of its single model changes nothing
EnvEmbedModels(r) ==
    IF r \in {"R2", "R5"} THEN {""} ELSE {"", "models/custom-embedding"}

\* the largest topK a caller passes
MaxTopK == 4

\* topK arguments: negative, zero, below and above the size of the
\* knowledge base
TopKs == {-1, 0, 2, MaxTopK}

\* what the provider does during one embedQuery call
\*   resps   R2: its response; R3: its response per candidate; R1: its
\*           response per probe
\*   probes  R4: its script per probed model
\*   script  R4: its script for the embedContent of the query; R1: its
\*           response to it
PIn(resps, probes, script) ==
    [resps |-> resps, probes |-> probes, script |-> script]

SingleResponses == {RespOk, RespShort, RespEmpty, RespErr(500)}

\* per candidate of R3: it embeds, it answers without a usable vector, or
\* it rejects
CandidateResponses == {RespOk, RespShort, RespErr(404)}

\* the provider's scripts for the probes of the three candidates of R4
ProbePlans ==
    {<< <<RespOk>>, <<RespOk>>, <<RespOk>> >>,
     << <<RespErr(404)>>, <<RespOk>>, <<RespOk>> >>,
     << <<RespShort>>, <<RespErr(404)>>, <<RespOk>> >>,
     << <<RespErr(429), RespOk>>, <<RespOk>>, <<RespOk>> >>,
     << <<RespErr(429)>>, <<RespErr(500)>>, <<RespErr(404)>> >>}

\* and for the probe of the override
OverridePlans ==
    {<< <<RespOk>> >>, << <<RespShort>> >>, << <<RespErr(404)>> >>,
     << <<RespErr(429), RespOk>> >>}

EmbedScripts ==
    {<<RespOk>>, <<RespShort>>, <<RespEmpty>>, <<RespErr(500)>>,
     <<RespErr(429)>>, <<RespErr(429), RespOk>>}

CandidatePlans(override) ==
    {PIn(rs, <<>>, <<>>) :
        rs \in [1..Len(EmbedModelCandidatesR3(override))
                    -> CandidateResponses]}

\* the provider's responses to the probes of the four candidates of R1
ProbePlansR1 ==
    {<<RespOk, RespOk, RespOk, RespOk>>,
     <<RespErr(404), RespOk, RespOk, RespOk>>,
     <<RespShort, RespErr(404), RespOk, RespOk>>,
     <<RespErr(404), RespErr(404), RespErr(404), RespOk>>,
     <<RespErr(404), RespShort, RespEmpty, RespErr(500)>>}

\* and to the probe of the override
OverridePlansR1 == {<<RespOk>>, <<RespShort>>, <<RespErr(404)>>}

InputsR1Selected == {PIn(<<>>, <<>>, <<x>>) : x \in SingleResponses}

InputsR1Default ==
    {PIn(ps, <<>>, <<x>>) : ps \in ProbePlansR1, x \in SingleResponses}

InputsR1Override ==
    {PIn(ps, <<>>, <<x>>) : ps \in OverridePlansR1, x \in SingleResponses}

InputsR2 == {PIn(<<x>>, <<>>, <<>>) : x \in SingleResponses}

InputsR3Default == CandidatePlans("")

InputsR3Override == CandidatePlans("models/custom-embedding")

InputsR4Selected == {PIn(<<>>, <<>>, sc) : sc \in EmbedScripts}

InputsR4Default == {PIn(<<>>, ps, sc) : ps \in ProbePlans, sc \in EmbedScripts}

InputsR5 == {PIn(<<>>, <<>>, sc) : sc \in EmbedScripts}

InputsR4Override ==
    {PIn(<<>>, ps, sc) : ps \in OverridePlans, sc \in EmbedScripts}

ProviderInputs(r, override, selected) ==
    CASE r = "R1" ->
            IF selected /= "" THEN InputsR1Selected
            ELSE IF override /= "" THEN InputsR1Override
            ELSE InputsR1Default
      [] r = "R2" -> InputsR2
      [] r = "R3" ->
            IF override /= "" THEN InputsR3Override ELSE InputsR3Default
      [] r = "R5" -> InputsR5
      [] OTHER ->
            IF selected /= "" THEN InputsR4Selected
            ELSE IF override /= "" THEN InputsR4Override
            ELSE InputsR4Default

\* embedQuery of the running revision
embedQuery(r, cache, selected, key, override, text, pin) ==
    CASE r = "R1" -> EmbedQueryR1(selected, key, override, text,
                                  pin.resps, pin.script[1])
      [] r = "R2" -> EmbedQueryR2(cache, key, text, pin.resps[1])
      [] r = "R3" -> EmbedQueryR3(cache, key, override, text, pin.resps)
      [] r = "R5" -> EmbedQueryR5(cache, key, text, pin.script)
      [] OTHER    -> EmbedQueryR4(cache, selected, key, override, text,
                                  pin.probes, pin.script)

\* the record kept of an embedQuery call
EmbedCall(text, e) ==
    [done |-> TRUE, text |-> text, key |-> e.key, threw |-> e.threw,
     vec |-> e.vec, calls |-> e.calls, hit |-> e.hit, reqs |-> e.reqs]

\* a loadKB that reads the artifact on every call
loadKBRereads(kbc, art) ==
    IF ~art.exists
    THEN [loaded |-> TRUE, kb |-> "empty", origin |-> "missing"]
    ELSE [loaded |-> TRUE, kb |-> art.kb, origin |-> "file"]

\* a loadKB that reads the artifact again while the cached array is empty
loadKBReloadsEmpty(kbc, art) ==
    IF kbc.loaded /\ Len(KBContent(kbc.kb)) > 0 THEN kbc
    ELSE IF ~art.exists
         THEN [loaded |-> TRUE, kb |-> "empty", origin |-> "missing"]
         ELSE [loaded |-> TRUE, kb |-> art.kb, origin |-> "file"]

(***************************************************************************)
(* loadKB: the artifact is read on the first call only; a missing file     *)
(* makes the empty array the cached knowledge base.  An empty array is     *)
(* truthy, so it is never reloaded.                                        *)
(***************************************************************************)
loadKB(kbc, art) ==
    IF kbc.loaded THEN kbc
    ELSE IF ~art.exists
         THEN [loaded |-> TRUE, kb |-> "empty", origin |-> "missing"]
         ELSE [loaded |-> TRUE, kb |-> art.kb, origin |-> "file"]

\* queries given to retrieveRelevantContext
RetrieveQueries == {<<"s", "1", "9", " ", "p", "r", "i", "c", "e">>, <<" ">>}

\* the vectors embedQuery can return for them
QueryVectors ==
    {RespValues(x, t) :
        x \in {RespOk, RespShort, RespEmpty},
        t \in RetrieveQueries \cup
              {QueryKey(q) : q \in RetrieveQueries}}

\* lexicalRetrieve and the vector scoring, tabulated over the sample
\* inputs (each entry is computed by the operator itself)
RetrievalTable ==
    {[kb |-> k, query |-> q, topK |-> t, vec |-> v,
      lexical |-> lexicalRetrieve(KBContent(k), q, t),
      vector |-> vectorRetrieve(KBContent(k), v, q, t),
      vectorR1 |-> vectorRetrieveR1(KBContent(k), v, q, t),
      lexicalScores |->
          [i \in 1..Len(KBContent(k)) |-> LexicalScore(q, KBContent(k)[i])],
      vectorScores |->
          [i \in 1..Len(KBContent(k)) |->
              VectorScore(v, ToLower(q), KBContent(k)[i])],
      vectorScoresR1 |->
          [i \in 1..Len(KBContent(k)) |->
              VectorScoreR1(v, ToLower(q), KBContent(k)[i])]] :
        k \in KBNames, q \in RetrieveQueries, t \in TopKs,
        v \in QueryVectors}

Tabulated(kb, query, topK, vec) ==
    CHOOSE x \in RetrievalTable :
        x.kb = kb /\ x.query = query /\ x.topK = topK /\ x.vec = vec

\* retrieveRelevantContext without the test of kbHasEmbeddings
skipsEmbedQueryWhenEmpty(r, kb) == Len(KBContent(kb)) = 0

\* the early returns of retrieveRelevantContext, taken before embedQuery:
\* the knowledge base named kb is empty, or (R2) none of its entries has an
\* embedding
skipsEmbedQuery(r, kb) ==
    \/ Len(KBContent(kb)) = 0
    \/ r = "R2" /\ ~kbHasEmbeddings(KBContent(kb))

\* what retrieveRelevantContext returns then: [threw, result, path]
retrieveEarly(kb, query, topK) ==
    IF Len(KBContent(kb)) = 0
    THEN [threw |-> FALSE, result |-> <<>>, path |-> "empty"]
    ELSE [threw |-> FALSE,
          result |-> Tabulated(kb, query, topK, <<>>).lexical,
          path |-> "lexical"]

\* and what it does once embedQuery has done e: it scores by the vector;
\* R2 catches a throw of embedQuery and scores lexically
retrieveScored(r, kb, query, topK, e) ==
    IF ~e.threw
    THEN [threw |-> FALSE,
          result |-> IF r = "R1"
                     THEN Tabulated(kb, query, topK, e.vec).vectorR1
                     ELSE Tabulated(kb, query, topK, e.vec).vector,
          path |-> "vector"]
    ELSE IF r = "R2"
    THEN [threw |-> FALSE,
          result |-> Tabulated(kb, query, topK, <<>>).lexical,
          path |-> "lexical"]
    ELSE [threw |-> TRUE, result |-> <<>>, path |-> "vector"]

\* the record kept of a retrieveRelevantContext call
RetrieveCall(query, topK, r, calls) ==
    [done |-> TRUE, query |-> query, topK |-> topK, threw |-> r.threw,
     result |-> r.result, path |-> r.path, calls |-> calls]

\* queries given to embedQuery: the empty and a whitespace-only query, a
\* query with and without surrounding whitespace, and two that agree on
\* their first KeyMaxLen characters.  R4 keys its cache by the raw text, so
\* it is given fewer texts.
CacheQueries(r) ==
    IF r = "R4"
    THEN {<<>>, <<"s", "1", "9", " ", "p", "r", "i", "c", "e">>, <<" ", "s", "1", "9", " ", "p", "r", "i", "c", "e", " ">>}
    ELSE IF r = "R5"
    THEN {<<>>, <<" ">>, <<"s", "1", "9", " ", "p", "r", "i", "c", "e">>, <<" ", "s", "1", "9", " ", "p", "r", "i", "c", "e", " ">>, <<"S", "1", "9", " ", "P", "r", "i", "c", "e">>,
          <<"a", "n", "t", "m", "i", "n", "e", "r", " ", "s", "1", "9", " ", "p", "r", "o">>}
    ELSE {<<>>, <<" ">>, <<"s", "1", "9", " ", "p", "r", "i", "c", "e">>, <<" ", "s", "1", "9", " ", "p", "r", "i", "c", "e", " ">>,
          <<"a", "n", "t", "m", "i", "n", "e", "r", " ", "s", "1", "9", " ", "p", "r", "o">>, <<"a", "n", "t", "m", "i", "n", "e", "r", " ", "s", "1", "9", " ", "x", "p">>}

Artifacts ==
    {NoArtifact} \cup {[exists |-> TRUE, kb |-> k] : k \in KBNames}

(***************************************************************************)
(* Specification SpecCache: embedQuery as retrieveRelevantContext calls    *)
(* it on a loaded, embedded knowledge base, one call after another.        *)
(***************************************************************************)
InitCache ==
    /\ RetryIdle
    /\ BuildIdle
    /\ CallIdle
    /\ CallerIdle
    /\ rev \in CacheRevisions
    /\ hasKey \in BOOLEAN
    /\ envEmbedModel \in EnvEmbedModels(rev)
    /\ artifact = [exists |-> TRUE, kb |-> "embedded"]
    /\ KB_CACHE = [loaded |-> TRUE, kb |-> "embedded", origin |-> "file"]
    /\ QUERY_EMBED_CACHE = <<>>
    /\ SELECTED_EMBED_MODEL = ""
    /\ provOk = FALSE
    /\ eq = NoEmbedCall
    /\ last = NoRetrieveCall

CallEmbedQuery ==
    \E text \in CacheQueries(rev) :
    \E pin \in ProviderInputs(rev, envEmbedModel, SELECTED_EMBED_MODEL) :
        LET e == embedQuery(rev, QUERY_EMBED_CACHE, SELECTED_EMBED_MODEL,
                            hasKey, envEmbedModel, text, pin)
        IN  /\ QUERY_EMBED_CACHE' = e.cache
            /\ SELECTED_EMBED_MODEL' = e.sel
            /\ provOk' = (provOk \/ e.resolved)
            /\ eq' = EmbedCall(text, e)
            /\ UNCHANGED <<rev, hasKey, envEmbedModel, artifact, KB_CACHE,
                           last>>
            /\ UNCHANGED <<retryVars, buildVars, callVars, callerVars>>

NextCache == CallEmbedQuery

SpecCache == InitCache /\ [][NextCache]_vars

(***************************************************************************)
(* Specification SpecRank: the vector scoring of retrieveRelevantContext   *)
(* (revision R2) on a loaded knowledge base of three embedded entries,     *)
(* for calls in which embedQuery returns the vector of the second entry.   *)
(***************************************************************************)
\* the queries of these calls: one that names the model of the price
\* entry, one that names its model and its product, one that names nothing
RankQueries == {<<"s", "1", "9", " ", "p", "r", "i", "c", "e">>, <<"p", "1", " ", "s", "1", "9">>, <<" ">>}

InitRank ==
    /\ RetryIdle
    /\ BuildIdle
    /\ CallIdle
    /\ CallerIdle
    /\ rev = "R2"
    /\ hasKey = TRUE
    /\ envEmbedModel = ""
    /\ \E k \in RankKBNames :
          /\ artifact = [exists |-> TRUE, kb |-> k]
          /\ KB_CACHE = [loaded |-> TRUE, kb |-> k, origin |-> "file"]
    /\ QUERY_EMBED_CACHE = <<>>
    /\ SELECTED_EMBED_MODEL = ""
    /\ provOk = FALSE
    /\ eq = NoEmbedCall
    /\ last = NoRetrieveCall

\* retrieveRelevantContext(query, topK), the provider answering with the
\* vector of the second entry
RetrieveSelfMatch ==
    \E query \in RankQueries, topK \in TopKs :
        LET kb  == KBContent(KB_CACHE.kb)
            vec == kb[2].embedding
        IN  /\ eq' = [done |-> TRUE, text |-> query, key |-> QueryKey(query),
                      threw |-> FALSE, vec |-> vec, calls |-> 1,
                      hit |-> FALSE,
                      reqs |-> <<Req(EmbedModelR2, FALSE, TRUE, 1)>>]
            /\ last' = RetrieveCall(query, topK,
                           [threw |-> FALSE,
                            result |-> vectorRetrieve(kb, vec, query, topK),
                            path |-> "vector"], 1)
            /\ provOk' = TRUE
            /\ UNCHANGED <<rev, hasKey, envEmbedModel, artifact, KB_CACHE,
                           QUERY_EMBED_CACHE, SELECTED_EMBED_MODEL>>
            /\ UNCHANGED <<retryVars, buildVars, callVars, callerVars>>

NextRank == RetrieveSelfMatch

SpecRank == InitRank /\ [][NextRank]_vars

(***************************************************************************)
(* Specification Spec: the process from its start, serving                 *)
(* retrieveRelevantContext calls while the artifact is written or removed  *)
(* underneath it.                                                          *)
(***************************************************************************)
Init ==
    /\ RetryIdle
    /\ BuildIdle
    /\ CallIdle
    /\ CallerIdle
    /\ RagIdle
    /\ rev \in Revisions
    /\ hasKey \in BOOLEAN
    /\ envEmbedModel \in EnvEmbedModels(rev)
    /\ artifact \in Artifacts

\* retrieveRelevantContext(query, topK)
Retrieve ==
    \E query \in RetrieveQueries :
        LET kbc == loadKB(KB_CACHE, artifact)
        IN  /\ KB_CACHE' = kbc
            /\ IF skipsEmbedQuery(rev, kbc.kb)
               THEN /\ \E topK \in TopKs :
                          last' = RetrieveCall(query, topK,
                                      retrieveEarly(kbc.kb, query, topK), 0)
                    /\ eq' = NoEmbedCall
                    /\ UNCHANGED <<QUERY_EMBED_CACHE, SELECTED_EMBED_MODEL,
                                   provOk>>
               ELSE \E pin \in ProviderInputs(rev, envEmbedModel,
                                              SELECTED_EMBED_MODEL) :
                        LET e == embedQuery(rev, QUERY_EMBED_CACHE,
                                            SELECTED_EMBED_MODEL, hasKey,
                                            envEmbedModel, query, pin)
                        IN  /\ QUERY_EMBED_CACHE' = e.cache
                            /\ SELECTED_EMBED_MODEL' = e.sel
                            /\ provOk' = (provOk \/ e.resolved)
                            /\ eq' = EmbedCall(query, e)
                            /\ \E topK \in TopKs :
                                  last' = RetrieveCall(query, topK,
                                      retrieveScored(rev, kbc.kb, query,
                                                     topK, e), e.calls)
            /\ UNCHANGED <<rev, hasKey, envEmbedModel, artifact>>
            /\ UNCHANGED <<retryVars, buildVars, callVars, callerVars>>

\* the compiler (or a deployment) writes the artifact
ArtifactWrite ==
    \E k \in KBNames :
        /\ artifact /= [exists |-> TRUE, kb |-> k]
        /\ artifact' = [exists |-> TRUE, kb |-> k]
        /\ UNCHANGED <<rev, hasKey, envEmbedModel, KB_CACHE,
                       QUERY_EMBED_CACHE, SELECTED_EMBED_MODEL, provOk, eq,
                       last>>
        /\ UNCHANGED <<retryVars, buildVars, callVars, callerVars>>

\* the artifact is deleted
ArtifactRemove ==
    /\ artifact.exists
    /\ artifact' = NoArtifact
    /\ UNCHANGED <<rev, hasKey, envEmbedModel, KB_CACHE, QUERY_EMBED_CACHE,
                   SELECTED_EMBED_MODEL, provOk, eq, last>>
    /\ UNCHANGED <<retryVars, buildVars, callVars, callerVars>>

Next == Retrieve \/ ArtifactWrite \/ ArtifactRemove

Spec == Init /\ [][Next]_vars

(***************************************************************************)
(* The knowledge base compiler, scripts/build-knowledge-base.mjs.  Three   *)
(* revisions of the script are modelled:                                   *)
(*   "B1"  scripts/build-knowledge-base.mjs (three sources, no retry)      *)
(*   "B2"  part_005 1-430    (adds the christy.log source)                 *)
(*   "B3"  part_005 692-1095 (credential checked and model picked at the   *)
(*                            start, withRetry around every request)       *)
(* A file is modelled by the text units the script makes of it (the        *)
(* chunks of the book, the messages and pairs of the transcript, the rows  *)
(* of the sheet); the metadata of an entry is left out.                    *)
(***************************************************************************)
ScriptRevisions == {"B1", "B2", "B3"}

\* MAX_RETRIES of B3 with EMBED_MAX_RETRIES unset
MAX_RETRIES == 8

\* the most text units a file yields
MaxUnits == 2

\* the build functions main awaits, in order, named by the source of their
\* entries
Sources(r) ==
    IF r = "B2"
    THEN <<"marketing_book", "chat", "christy_log", "price_sheet">>
    ELSE <<"marketing_book", "chat", "price_sheet">>

SourceSet(r) == {Sources(r)[i] : i \in 1..Len(Sources(r))}

SourceIndex(r, s) == CHOOSE i \in 1..Len(Sources(r)) : Sources(r)[i] = s

\* what main does after the build function of source s returned
NextStage(r, s) ==
    IF SourceIndex(r, s) = Len(Sources(r)) THEN "write"
    ELSE Sources(r)[SourceIndex(r, s) + 1]

\* the n-th text unit of a source
Unit(s, n) ==
    (CASE s = "marketing_book" -> <<"b", "o", "o", "k">>
       [] s = "chat"           -> <<"U", "s", "e", "r", ":", " ">>
       [] s = "christy_log"    -> <<"l", "o", "g">>
       [] OTHER                -> <<"C", "a", "t", "e", "g", "o", "r", "y", ":", " ">>) \o [i \in 1..n |-> "x"]

\* an input file: absent, or present with n units; chats.json may also be
\* present and fail JSON.parse.  pids is the product_id column of the rows
\* of the price sheet, empty where a row has none.
AbsentFile == [exists |-> FALSE, ok |-> TRUE, units |-> <<>>, pids |-> <<>>]

PresentFile(s, n) ==
    [exists |-> TRUE, ok |-> TRUE, units |-> [i \in 1..n |-> Unit(s, i)],
     pids |-> [i \in 1..n |-> <<>>]]

MalformedFile ==
    [exists |-> TRUE, ok |-> FALSE, units |-> <<>>, pids |-> <<>>]

\* a price sheet whose rows have the product ids col
PriceFile(col) ==
    [exists |-> TRUE, ok |-> TRUE,
     units |-> [i \in 1..Len(col) |-> Unit("price_sheet", i)], pids |-> col]

\* product_id columns: distinct ids, the same id twice, and an id that is
\* the index of a later row without one
PriceIdColumns ==
    {<<<<"p", "1">>, <<"p", "2">>>>, <<<<"p", "1">>, <<"p", "1">>>>, <<<<"1">>, <<>> >>}

FileStates(s) ==
    {AbsentFile} \cup {PresentFile(s, n) : n \in 0..MaxUnits}
        \cup (IF s = "chat" THEN {MalformedFile} ELSE {})
        \cup (IF s = "price_sheet"
              THEN {PriceFile(col) : col \in PriceIdColumns} ELSE {})

\* the id of the entry of unit i (from 1) of source s:
\* `marketing_${i}`, `chat_${i}`, `log_${i}`, `price_${row.product_id || i}`
\* with i counted from 0
EntryId(s, i, pid) ==
    <<s, IF s = "price_sheet" /\ pid /= <<>> THEN pid ELSE FormatNat(i - 1)>>

InputSets(r) ==
    {f \in [SourceSet(r) -> UNION {FileStates(s) : s \in SourceSet(r)}] :
        \A s \in SourceSet(r) : f[s] \in FileStates(s)}

\* The provider's script for the embedContent of one unit: script[k] is its
\* response to the k-th request, the last response repeating.  B1 and B2
\* make one request per unit.  They build the client with an empty key when
\* GEMINI_API_KEY is unset, and the provider then rejects every request.
UnitScriptSet(r, key) ==
    IF r = "B3"
    THEN {<<RespOk>>, <<RespEmpty>>, <<RespErr(500)>>, <<RespErr(429)>>,
          <<RespErr(429), RespOk>>}
    ELSE IF key
    THEN {<<RespOk>>, <<RespEmpty>>, <<RespErr(500)>>, <<RespErr(429)>>}
    ELSE {<<RespErr(403)>>}

UnitScripts(r, key, n) == [1..n -> UnitScriptSet(r, key)]

\* EMBEDDING_MODEL_CANDIDATES of B3 (part_005 724-729)
BuildModelCandidates ==
    <<"models/text-embedding-004", "models/gemini-embedding-001",
      "models/text-embedding-001", "models/embedding-001">>

\* the provider's scripts for the probes of the four candidates
BuildProbePlans ==
    {<< <<RespOk>>, <<RespOk>>, <<RespOk>>, <<RespOk>> >>,
     << <<RespErr(404)>>, <<RespErr(429), RespOk>>, <<RespOk>>, <<RespOk>> >>,
     << <<RespErr(404)>>, <<RespShort>>, <<RespErr(429)>>, <<RespErr(500)>> >>}

\* the for loop of pickEmbeddingModel of B3 from candidate i on, with
\* EMBEDDING_MODEL unset (part_005 838-850)
RECURSIVE BuildProbeCandidates(_, _)
BuildProbeCandidates(probes, i) ==
    IF i > Len(BuildModelCandidates)
    THEN [threw |-> TRUE, sel |-> ""]
    ELSE IF WithRetryRun("ping", MAX_RETRIES, probes[i], 0).ok
         THEN [threw |-> FALSE, sel |-> BuildModelCandidates[i]]
         ELSE BuildProbeCandidates(probes, i + 1)

\* the embedContent of one unit: B3 wraps it in withRetry (part_005 872)
EmbedUnit(r, script) ==
    IF r = "B3" THEN WithRetryRun("embed", MAX_RETRIES, script, 0)
    ELSE [ok |-> script[1].kind /= "err", resp |-> script[1], calls |-> 1,
          resolved |-> script[1].kind /= "err"]

\* embedBatch from text i on: a rejected request throws out of the loop.
\* embedAll of B3 calls it slice by slice, to the same effect.
RECURSIVE embedBatch(_, _, _, _, _)
embedBatch(r, texts, scripts, i, out) ==
    IF i > Len(texts) THEN [threw |-> FALSE, embeddings |-> out]
    ELSE LET run == EmbedUnit(r, scripts[i])
         IN  IF ~run.ok THEN [threw |-> TRUE, embeddings |-> out]
             ELSE embedBatch(r, texts, scripts, i + 1,
                             Append(out, RespValues(run.resp, texts[i])))

\* the model the units are embedded with: EMBEDDING_MODEL of B1 and B2, the
\* selected model of B3
BuildEmbedModel(r, selected) ==
    IF r = "B3" THEN selected ELSE "models/text-embedding-004"

\* the responses the provider gave to the requests of embedBatch from text
\* i on, each with the model and the text of its request
RECURSIVE Answers(_, _, _, _, _)
Answers(r, model, texts, scripts, i) ==
    IF i > Len(texts) THEN {}
    ELSE LET run  == EmbedUnit(r, scripts[i])
             here == {[model |-> model, text |-> texts[i],
                       resp |-> scripts[i][Min(k, Len(scripts[i]))]] :
                          k \in 1..run.calls}
         IN  IF ~run.ok THEN here
             ELSE here \cup Answers(r, model, texts, scripts, i + 1)

\* a write that appends to what the file holds
appendFileSync(file, kb) == [written |-> TRUE, kb |-> file.kb \o kb]

\* fs.writeFileSync(outPath, JSON.stringify(kb)): the file holds the new
\* array, whatever it held
writeFileSync(file, kb) == [written |-> TRUE, kb |-> kb]

\* a build function that reads its file without looking whether it exists
buildEntriesUnguarded(r, s, input, scripts) ==
    IF ~input.exists
    THEN [threw |-> TRUE, cause |-> "ENOENT", entries |-> <<>>]
    ELSE LET e == embedBatch(r, input.units, scripts, 1, <<>>)
         IN  IF e.threw
             THEN [threw |-> TRUE, cause |-> "provider", entries |-> <<>>]
             ELSE [threw |-> FALSE, cause |-> "",
                   entries |-> [i \in 1..Len(input.units) |->
                       MkEntry(EntryId(s, i, input.pids[i]), s,
                               input.units[i], <<>>, e.embeddings[i])]]

\* buildMarketingEntries, buildChatEntries, buildLogEntries and
\* buildPriceEntries: an absent file gives no entries; otherwise the units
\* are embedded and one entry is made per unit
buildEntries(r, s, input, scripts) ==
    IF ~input.exists
    THEN [threw |-> FALSE, cause |-> "", entries |-> <<>>]
    ELSE IF ~input.ok
    THEN [threw |-> TRUE, cause |-> "parse", entries |-> <<>>]
    ELSE LET e == embedBatch(r, input.units, scripts, 1, <<>>)
         IN  IF e.threw
             THEN [threw |-> TRUE, cause |-> "provider", entries |-> <<>>]
             ELSE [threw |-> FALSE, cause |-> "",
                   entries |-> [i \in 1..Len(input.units) |->
                       MkEntry(EntryId(s, i, input.pids[i]), s,
                               input.units[i], <<>>, e.embeddings[i])]]

(***************************************************************************)
(* Specification SpecBuild: one run of the script.                         *)
(***************************************************************************)
InitBuild ==
    /\ RetryIdle
    /\ RagIdle
    /\ CallIdle
    /\ CallerIdle
    /\ rev = "R2" /\ hasKey = TRUE /\ envEmbedModel = ""
    /\ artifact = NoArtifact
    /\ scriptRev \in ScriptRevisions
    /\ envKey \in BOOLEAN
    /\ inputs \in InputSets(scriptRev)
    /\ pc = "start"
    /\ BUILD_SELECTED_EMBED_MODEL = ""
    /\ entries = <<>>
    /\ outFile = [written |-> FALSE, kb |-> <<>>]
    /\ failure = ""
    /\ rerun = FALSE
    /\ observed = {}
    /\ readKB = [done |-> FALSE, raw |-> "none"]

\* main().catch: the error is printed and the process exits with code 1
Fails(cause) ==
    /\ pc' = "failed"
    /\ failure' = cause
    /\ UNCHANGED <<scriptRev, envKey, inputs, BUILD_SELECTED_EMBED_MODEL,
                   entries, outFile, rerun, readKB>>

\* The start of the run.  B3 exits when GEMINI_API_KEY is missing and then
\* picks the embedding model (part_005 710-714, 1072); B1 and B2 go straight
\* to the first source.
MainStart ==
    /\ pc = "start"
    /\ IF scriptRev /= "B3"
       THEN /\ pc' = Sources(scriptRev)[1]
            /\ UNCHANGED <<scriptRev, envKey, inputs,
                           BUILD_SELECTED_EMBED_MODEL, entries, outFile,
                           failure, rerun, readKB>>
       ELSE IF ~envKey THEN Fails("credential")
       ELSE \E probes \in BuildProbePlans :
               LET pick == BuildProbeCandidates(probes, 1)
               IN  IF pick.threw THEN Fails("model")
                   ELSE /\ pc' = Sources(scriptRev)[1]
                        /\ BUILD_SELECTED_EMBED_MODEL' = pick.sel
                        /\ UNCHANGED <<scriptRev, envKey, inputs, entries,
                                       outFile, failure, rerun, readKB>>
    /\ observed' = observed
    /\ UNCHANGED <<retryVars, ragVars, callVars, callerVars>>

\* main awaits the build function of source s (buildMarketingEntries,
\* buildChatEntries, buildLogEntries, buildPriceEntries)
BuildSource(s) ==
    /\ pc = s
    /\ \E scripts \in UnitScripts(scriptRev, envKey, Len(inputs[s].units)) :
          LET b == buildEntries(scriptRev, s, inputs[s], scripts)
          IN  /\ IF b.threw THEN Fails(b.cause)
                 ELSE /\ pc' = NextStage(scriptRev, s)
                      /\ entries' = entries \o b.entries
                      /\ UNCHANGED <<scriptRev, envKey, inputs,
                                     BUILD_SELECTED_EMBED_MODEL, outFile,
                                     failure, rerun, readKB>>
              /\ observed' = observed \cup
                    Answers(scriptRev,
                            BuildEmbedModel(scriptRev,
                                            BUILD_SELECTED_EMBED_MODEL),
                            inputs[s].units, scripts, 1)
    /\ UNCHANGED <<retryVars, ragVars, callVars, callerVars>>

\* the end of main: the whole array is written, in order
WriteKnowledgeBase ==
    /\ pc = "write"
    /\ outFile' = writeFileSync(outFile, entries)
    /\ pc' = "done"
    /\ UNCHANGED <<scriptRev, envKey, inputs, BUILD_SELECTED_EMBED_MODEL,
                   entries, failure, rerun, observed, readKB>>
    /\ UNCHANGED <<retryVars, ragVars, callVars, callerVars>>

\* the script is run again, in a new process, on the same files and with
\* the same environment; the artifact of the run before is on disk
RunAgain ==
    /\ pc \in {"done", "failed"}
    /\ ~rerun
    /\ pc' = "start"
    /\ rerun' = TRUE
    /\ BUILD_SELECTED_EMBED_MODEL' = ""
    /\ entries' = <<>>
    /\ failure' = ""
    /\ UNCHANGED <<scriptRev, envKey, inputs, outFile, observed, readKB>>
    /\ UNCHANGED <<retryVars, ragVars, callVars, callerVars>>

NextBuild ==
    \/ MainStart
    \/ \E s \in SourceSet(scriptRev) : BuildSource(s)
    \/ WriteKnowledgeBase

SpecBuild == InitBuild /\ [][NextBuild]_vars

(***************************************************************************)
(* Specification SpecRebuild: the script run twice on the same files, with *)
(* the credential set and at most two of the files present, one unit each. *)
(***************************************************************************)
RebuildInputSets(r) ==
    {f \in [SourceSet(r) ->
               {AbsentFile} \cup {PresentFile(s, 1) : s \in SourceSet(r)}] :
        /\ \A s \in SourceSet(r) : f[s] \in {AbsentFile, PresentFile(s, 1)}
        /\ Cardinality({s \in SourceSet(r) : f[s].exists}) <= 2}

InitRebuild ==
    /\ InitBuild
    /\ envKey
    /\ inputs \in RebuildInputSets(scriptRev)

NextRebuild == NextBuild \/ RunAgain

SpecRebuild == InitRebuild /\ [][NextRebuild]_vars

(***************************************************************************)
(* Specification SpecLoadDuringBuild: a serving process loads the          *)
(* knowledge base while the script runs.  fs.writeFileSync opens the       *)
(* artifact path itself, which truncates the file, and then writes the     *)
(* document into it; another process can read the path between the two.    *)
(***************************************************************************)
\* open(outPath, "w"): the file is there and empty
WriteOpen ==
    /\ pc = "write"
    /\ outFile' = [written |-> TRUE, kb |-> <<>>]
    /\ pc' = "writing"
    /\ UNCHANGED <<scriptRev, envKey, inputs, BUILD_SELECTED_EMBED_MODEL,
                   entries, failure, rerun, observed, readKB>>
    /\ UNCHANGED <<retryVars, ragVars, callVars, callerVars>>

\* write and close: the file holds the whole document
WriteData ==
    /\ pc = "writing"
    /\ outFile' = writeFileSync(outFile, entries)
    /\ pc' = "done"
    /\ UNCHANGED <<scriptRev, envKey, inputs, BUILD_SELECTED_EMBED_MODEL,
                   entries, failure, rerun, observed, readKB>>
    /\ UNCHANGED <<retryVars, ragVars, callVars, callerVars>>

\* B3 writes data/rag/knowledge_base.json, the path loadKB reads; B1 and B2
\* write data/knowledge_base.json, which no serving process reads
WritesServedPath(r) == r = "B3"

\* what fs.existsSync and fs.readFileSync of loadKB find at their path
RawArtifact(r, file, stage) ==
    IF ~WritesServedPath(r) \/ ~file.written THEN "absent"
    ELSE IF stage = "writing" THEN "partial"
    ELSE "whole"

\* loadKB in a serving process whose KB_CACHE is null: an absent file gives
\* the empty array, a whole document is parsed and cached, anything else
\* makes JSON.parse throw and leaves KB_CACHE null
LoadKB ==
    /\ readKB.raw \in {"none", "partial"}
    /\ readKB' = [done |-> TRUE, raw |-> RawArtifact(scriptRev, outFile, pc)]
    /\ UNCHANGED <<scriptRev, envKey, inputs, pc,
                   BUILD_SELECTED_EMBED_MODEL, entries, outFile, failure,
                   rerun, observed>>
    /\ UNCHANGED <<retryVars, ragVars, callVars, callerVars>>

NextLoadDuringBuild ==
    \/ MainStart
    \/ \E s \in SourceSet(scriptRev) : BuildSource(s)
    \/ WriteOpen
    \/ WriteData
    \/ RunAgain
    \/ LoadKB

SpecLoadDuringBuild == InitRebuild /\ [][NextLoadDuringBuild]_vars
(***************************************************************************)
(* describePriceRow of scripts/build-knowledge-base.mjs.  A row is a       *)
(* record of the strings papaparse gives for its columns, empty where the  *)
(* cell is empty.  B1 and B2 have the same function; B3 compares the       *)
(* category and the condition in lower case.                               *)
(***************************************************************************)
\* v && String(v).trim()
Filled(v) == Trim(v) /= <<>>

\* Array.prototype.filter(Boolean) on strings
FilterBoolean(parts) == SelectSeq(parts, LAMBDA p : p /= <<>>)

\* Array.prototype.join
RECURSIVE Join(_, _)
Join(parts, sep) ==
    IF parts = <<>> THEN <<>>
    ELSE IF Len(parts) = 1 THEN parts[1]
    ELSE parts[1] \o sep \o Join(Tail(parts), sep)

\* the category-specific hint
PriceRowExtra(r, category) ==
    LET c == IF r = "B3" THEN ToLower(category) ELSE category
    IN  CASE c = <<"h", "o", "s", "t", "i", "n", "g">> ->
               IF r = "B3"
               THEN <<" ", "H", "o", "s", "t", "i", "n", "g", " ", "a", "p", "p", "l", "i", "e", "s", " ", "O", "N", "L", "Y", " ", "t", "o", " ", "m", "i", "n", "e", "r", "s", ";", " ", "t", "r", "a", "n", "s", "f", "o", "r", "m", "e", "r", "s", ",", " ", "c", "o", "n", "t", "a", "i", "n", "e", "r", "s", ",", " ", "c", "a", "b", "l", "e", "s", ",", " ", "P", "D", "U", "s", "/", "f", "a", "n", "s", " ", "a", "n", "d", " ", "s", "p", "a", "r", "e", " ", "p", "a", "r", "t", "s", " ", "a", "r", "e", " ", "s", "e", "p", "a", "r", "a", "t", "e", " ", "l", "i", "n", "e", " ", "i", "t", "e", "m", "s", ".">>
               ELSE <<" ", "H", "o", "s", "t", "i", "n", "g", " ", "a", "p", "p", "l", "i", "e", "s", " ", "O", "N", "L", "Y", " ", "t", "o", " ", "m", "i", "n", "e", "r", "s", ";", " ", "t", "r", "a", "n", "s", "f", "o", "r", "m", "e", "r", "s", ",", " ", "c", "o", "n", "t", "a", "i", "n", "e", "r", "s", ",", " ", "c", "a", "b", "l", "e", "s", ",", " ", "P", "D", "U", "s", " ", "a", "n", "d", " ", "f", "a", "n", "s", " ", "a", "r", "e", " ", "s", "e", "p", "a", "r", "a", "t", "e", " ", "l", "i", "n", "e", " ", "i", "t", "e", "m", "s", ".">>
          [] c = <<"t", "r", "a", "n", "s", "f", "o", "r", "m", "e", "r">> ->
               <<" ", "T", "h", "i", "s", " ", "i", "s", " ", "a", " ", "p", "o", "w", "e", "r", " ", "t", "r", "a", "n", "s", "f", "o", "r", "m", "e", "r", " ", "f", "o", "r", " ", "m", "i", "n", "i", "n", "g", " ", "i", "n", "f", "r", "a", "s", "t", "r", "u", "c", "t", "u", "r", "e", ",", " ", "n", "o", "t", " ", "a", " ", "m", "i", "n", "e", "r", ".">>
          [] c = <<"c", "o", "n", "t", "a", "i", "n", "e", "r">> ->
               <<" ", "T", "h", "i", "s", " ", "i", "s", " ", "a", " ", "m", "i", "n", "i", "n", "g", " ", "c", "o", "n", "t", "a", "i", "n", "e", "r", " ", "u", "s", "e", "d", " ", "t", "o", " ", "h", "o", "u", "s", "e", " ", "a", "n", "d", " ", "c", "o", "o", "l", " ", "m", "i", "n", "e", "r", "s", ".">>
          [] c = <<"i", "m", "m", "e", "r", "s", "i", "o", "n", "_", "s", "y", "s", "t", "e", "m">> ->
               IF r = "B3"
               THEN <<" ", "T", "h", "i", "s", " ", "i", "s", " ", "a", "n", " ", "i", "m", "m", "e", "r", "s", "i", "o", "n", " ", "c", "o", "o", "l", "i", "n", "g", " ", "s", "y", "s", "t", "e", "m", " ", "f", "o", "r", " ", "m", "i", "n", "e", "r", "s", ",", " ", "n", "o", "t", " ", "a", " ", "m", "i", "n", "e", "r", " ", "i", "t", "s", "e", "l", "f", ".">>
               ELSE <<" ", "T", "h", "i", "s", " ", "i", "s", " ", "a", "n", " ", "i", "m", "m", "e", "r", "s", "i", "o", "n", " ", "c", "o", "o", "l", "i", "n", "g", " ", "s", "y", "s", "t", "e", "m", " ", "(", "e", ".", "g", ".", ",", " ", "S", "u", "b", "m", "e", "r", " ", "t", "a", "n", "k", ")", " ", "f", "o", "r", " ", "m", "i", "n", "e", "r", "s", ",", " ", "n", "o", "t", " ", "a", " ", "m", "i", "n", "e", "r", " ", "i", "t", "s", "e", "l", "f", ".">>
          [] c = <<"c", "a", "b", "l", "e", "s">> ->
               IF r = "B3"
               THEN <<" ", "T", "h", "e", "s", "e", " ", "a", "r", "e", " ", "p", "o", "w", "e", "r", " ", "c", "a", "b", "l", "e", "s", " ", "f", "o", "r", " ", "c", "o", "n", "n", "e", "c", "t", "i", "n", "g", " ", "m", "i", "n", "e", "r", "s", ",", " ", "P", "D", "U", "s", ",", " ", "o", "r", " ", "t", "r", "a", "n", "s", "f", "o", "r", "m", "e", "r", "s", ".">>
               ELSE <<" ", "T", "h", "e", "s", "e", " ", "a", "r", "e", " ", "p", "o", "w", "e", "r", " ", "c", "a", "b", "l", "e", "s", " ", "f", "o", "r", " ", "c", "o", "n", "n", "e", "c", "t", "i", "n", "g", " ", "m", "i", "n", "e", "r", "s", " ", "o", "r", " ", "P", "D", "U", "s", ".">>
          [] c = <<"p", "d", "u", "_", "f", "a", "n">> \/ (r = "B3" /\ c \in {<<"p", "d", "u">>, <<"f", "a", "n">>}) ->
               IF r = "B3"
               THEN <<" ", "T", "h", "e", "s", "e", " ", "a", "r", "e", " ", "P", "D", "U", "s", " ", "a", "n", "d", "/", "o", "r", " ", "f", "a", "n", "s", " ", "t", "h", "a", "t", " ", "s", "u", "p", "p", "o", "r", "t", " ", "m", "i", "n", "i", "n", "g", " ", "d", "e", "p", "l", "o", "y", "m", "e", "n", "t", "s", ".">>
               ELSE <<" ", "P", "D", "U", "s", " ", "a", "n", "d", "/", "o", "r", " ", "f", "a", "n", "s", " ", "t", "h", "a", "t", " ", "s", "u", "p", "p", "o", "r", "t", " ", "m", "i", "n", "e", "r", " ", "d", "e", "p", "l", "o", "y", "m", "e", "n", "t", "s", ".">>
          [] r = "B3" /\ c \in {<<"p", "a", "r", "t", "s">>, <<"s", "p", "a", "r", "e", "_", "p", "a", "r", "t", "s">>, <<"s", "p", "a", "r", "e", "s">>} ->
               <<" ", "T", "h", "e", "s", "e", " ", "a", "r", "e", " ", "s", "p", "a", "r", "e", " ", "p", "a", "r", "t", "s", " ", "/", " ", "r", "e", "p", "l", "a", "c", "e", "m", "e", "n", "t", " ", "c", "o", "m", "p", "o", "n", "e", "n", "t", "s", ".">>
          [] OTHER -> <<>>

describePriceRow(r, row) ==
    LET category == IF row.category /= <<>> THEN row.category
                    ELSE <<"p", "r", "o", "d", "u", "c", "t">>
        used == IF r = "B3" THEN ToLower(row.condition) = <<"u", "s", "e", "d">>
                ELSE row.condition = <<"u", "s", "e", "d">>
        condition == IF used THEN <<"u", "s", "e", "d">> ELSE <<"n", "e", "w">>
        hashrate == IF Filled(row.hashrate_ths)
                    THEN <<"H", "a", "s", "h", "r", "a", "t", "e", ":", " ">> \o row.hashrate_ths \o <<" ", "T", "H", "/", "s">>
                    ELSE <<>>
        efficiency == IF Filled(row.efficiency_j_th)
                      THEN <<"E", "f", "f", "i", "c", "i", "e", "n", "c", "y", ":", " ">> \o row.efficiency_j_th \o <<" ", "J", "/", "T", "H">>
                      ELSE <<>>
        price == IF Filled(row.price_usd) THEN <<"$">> \o row.price_usd
                 ELSE <<"P", "r", "i", "c", "e", " ", "o", "n", " ", "r", "e", "q", "u", "e", "s", "t">>
        stock == IF Filled(row.stock) THEN row.stock \o <<" ", "i", "n", " ", "s", "t", "o", "c", "k">>
                 ELSE <<"s", "t", "o", "c", "k", " ", "o", "n", " ", "r", "e", "q", "u", "e", "s", "t">>
        perf == Join(FilterBoolean(<<hashrate, efficiency>>), <<",", " ">>)
        doa == IF Filled(row.doa_terms)
               THEN <<" ", "D", "O", "A", " ", "/", " ", "w", "a", "r", "r", "a", "n", "t", "y", ":", " ">> \o row.doa_terms ELSE <<>>
        notes == IF Filled(row.notes) THEN <<" ", "N", "o", "t", "e", "s", ":", " ">> \o row.notes
                 ELSE <<>>
    IN  Join(FilterBoolean(<<<<"C", "a", "t", "e", "g", "o", "r", "y", ":", " ">> \o category,
                             <<"M", "o", "d", "e", "l", ":", " ">> \o row.model_name,
                             <<"C", "o", "n", "d", "i", "t", "i", "o", "n", ":", " ">> \o condition,
                             perf,
                             <<"P", "r", "i", "c", "e", ":", " ">> \o price,
                             <<"A", "v", "a", "i", "l", "a", "b", "i", "l", "i", "t", "y", ":", " ">> \o stock \o <<".">>,
                             PriceRowExtra(r, category),
                             doa,
                             notes>>), <<" ">>)

\* sample rows: the cells that decide the text vary, the others are all
\* empty or all filled
PriceRows ==
    {[category |-> c, model_name |-> m, condition |-> k, price_usd |-> p,
      hashrate_ths |-> o.h, efficiency_j_th |-> o.e, stock |-> o.s,
      doa_terms |-> o.d, notes |-> o.n] :
        c \in {<<>>, <<"h", "o", "s", "t", "i", "n", "g">>, <<"H", "o", "s", "t", "i", "n", "g">>, <<"H", "O", "S", "T", "I", "N", "G">>, <<"m", "i", "n", "e", "r">>,
               <<"t", "r", "a", "n", "s", "f", "o", "r", "m", "e", "r">>},
        m \in {<<"C", "o", "l", "o", " ", "1", "M", "W">>},
        k \in {<<"u", "s", "e", "d">>, <<"U", "s", "e", "d">>, <<>>},
        p \in {<<>>, <<" ">>, <<"2", "0", "0", "0">>},
        o \in {[h |-> <<>>, e |-> <<>>, s |-> <<>>, d |-> <<>>, n |-> <<>>],
               [h |-> <<"1", "0", "0">>, e |-> <<"3", "0">>, s |-> <<"5">>, d |-> <<"7", " ", "d", "a", "y", "s">>,
                n |-> <<"p", "r", "e", "p", "a", "i", "d">>]}}

(***************************************************************************)
(* Specification SpecDescribe: one call of describePriceRow.               *)
(***************************************************************************)
InitDescribe ==
    /\ RetryIdle
    /\ RagIdle
    /\ rev = "R2" /\ hasKey = TRUE /\ envEmbedModel = ""
    /\ artifact = NoArtifact
    /\ BuildIdle
    /\ CallerIdle
    /\ callFn = "describePriceRow"
    /\ callArg \in [rev : ScriptRevisions, row : PriceRows]
    /\ callRet = [done |-> FALSE, value |-> <<>>]
    /\ callLocal = <<>>

CallDescribePriceRow ==
    /\ callFn = "describePriceRow"
    /\ ~callRet.done
    /\ callRet' = [done |-> TRUE,
                   value |-> describePriceRow(callArg.rev, callArg.row)]
    /\ UNCHANGED <<callFn, callArg, callLocal>>
    /\ UNCHANGED <<retryVars, ragVars, buildVars, callerVars>>

NextDescribe == CallDescribePriceRow

SpecDescribe == InitDescribe /\ [][NextDescribe]_vars

(***************************************************************************)
(* Specification SpecCosine: the similarity of a query embedding to the    *)
(* embeddings of two entries, as the map of retrieveRelevantContext        *)
(* computes it.                                                            *)
(***************************************************************************)
\* sample embeddings: empty, all-zero, and non-zero ones of whole norm, of
\* opposite directions and of different lengths
CosineVectors ==
    {<<>>, Vec(0, 0), Vec(1, 0), Vec(-1, 0), Vec(0, 1), Vec(3, 4),
     Vec(-3, -4), <<0, 0, 0>>, <<0, -5, 0>>}

InitCosine ==
    /\ RetryIdle
    /\ RagIdle
    /\ rev = "R2" /\ hasKey = TRUE /\ envEmbedModel = ""
    /\ artifact = NoArtifact
    /\ BuildIdle
    /\ CallerIdle
    /\ callFn = "cosineSim"
    /\ callArg \in [query : CosineVectors, first : CosineVectors,
                    second : CosineVectors]
    /\ callRet = [done |-> FALSE, value |-> <<>>]
    /\ callLocal = <<>>

CallCosineSim ==
    /\ callFn = "cosineSim"
    /\ ~callRet.done
    /\ callRet' = [done |-> TRUE,
                   value |-> <<cosineSim(callArg.query, callArg.first),
                               cosineSim(callArg.query, callArg.second)>>]
    /\ UNCHANGED <<callFn, callArg, callLocal>>
    /\ UNCHANGED <<retryVars, ragVars, buildVars, callerVars>>

NextCosine == CallCosineSim

SpecCosine == InitCosine /\ [][NextCosine]_vars

(***************************************************************************)
(* Specification SpecChunk: chunkText on one text.                         *)
(***************************************************************************)
\* the chunk budget: maxChars, 800 in the script, scaled to the texts below
ChunkBudget == 5

\* the longest text given to chunkText
MaxTextLen == 7

ChunkAlphabet == {"a", "b", " ", "\n"}

ChunkTexts == UNION {[1..n -> ChunkAlphabet] : n \in 0..MaxTextLen}

ParagraphSep == <<"\n", "\n">>

\* the ends of the matches of /\n\s*\n/ that begin at position i of text
SepEnds(text, i) ==
    {j \in (i + 1)..Len(text) :
        /\ text[i] = "\n"
        /\ text[j] = "\n"
        /\ \A k \in (i + 1)..(j - 1) : text[k] \in Whitespace}

Least(S) == CHOOSE x \in S : \A y \in S : x <= y

Greatest(S) == CHOOSE x \in S : \A y \in S : x >= y

\* text.split(/\n\s*\n/): the leftmost match, as long as \s* can make it
RECURSIVE SplitParagraphs(_)
SplitParagraphs(text) ==
    LET begins == {i \in 1..Len(text) : SepEnds(text, i) /= {}}
    IN  IF begins = {} THEN <<text>>
        ELSE LET i == Least(begins)
                 j == Greatest(SepEnds(text, i))
             IN  <<SubSeq(text, 1, i - 1)>>
                     \o SplitParagraphs(SubSeq(text, j + 1, Len(text)))

\* current with p appended
Appended(current, p) ==
    IF current /= <<>> THEN current \o ParagraphSep \o p ELSE p

\* a test that also closes the chunk that p would fill exactly
ExceedsOrFills(r, current, p, maxChars) ==
    IF r = "B3"
    THEN Len(Appended(current, p)) >= maxChars
    ELSE Len(current \o ParagraphSep \o p) >= maxChars

\* the test of the loop: `(current + "\n\n" + p).length > maxChars`, and
\* `next.length > maxChars` in revision B3
Exceeds(r, current, p, maxChars) ==
    IF r = "B3"
    THEN Len(Appended(current, p)) > maxChars
    ELSE Len(current \o ParagraphSep \o p) > maxChars

\* chunks with current pushed if it is not blank
Pushed(chunks, current) ==
    IF Trim(current) /= <<>> THEN Append(chunks, Trim(current)) ELSE chunks

\* the for loop of chunkText from paragraph i on, and the final push
RECURSIVE ChunkLoop(_, _, _, _, _, _)
ChunkLoop(r, paragraphs, i, current, chunks, maxChars) ==
    IF i > Len(paragraphs) THEN Pushed(chunks, current)
    ELSE LET p == paragraphs[i]
         IN  IF Exceeds(r, current, p, maxChars)
             THEN ChunkLoop(r, paragraphs, i + 1, p,
                            Pushed(chunks, current), maxChars)
             ELSE ChunkLoop(r, paragraphs, i + 1, Appended(current, p),
                            chunks, maxChars)

chunkText(r, text, maxChars) ==
    ChunkLoop(r, SplitParagraphs(text), 1, <<>>, <<>>, maxChars)

InitChunk ==
    /\ RetryIdle
    /\ RagIdle
    /\ rev = "R2" /\ hasKey = TRUE /\ envEmbedModel = ""
    /\ artifact = NoArtifact
    /\ BuildIdle
    /\ CallerIdle
    /\ callFn = "chunkText"
    /\ callArg \in [rev : ScriptRevisions, text : ChunkTexts]
    /\ callRet = [done |-> FALSE, value |-> <<>>]
    /\ callLocal = <<>>

CallChunkText ==
    /\ callFn = "chunkText"
    /\ ~callRet.done
    /\ callRet' = [done |-> TRUE,
                   value |-> chunkText(callArg.rev, callArg.text,
                                       ChunkBudget)]
    /\ UNCHANGED <<callFn, callArg, callLocal>>
    /\ UNCHANGED <<retryVars, ragVars, buildVars, callerVars>>

NextChunk == CallChunkText

SpecChunk == InitChunk /\ [][NextChunk]_vars

(***************************************************************************)
(* Specification SpecChat: the loop of buildChatEntries over one           *)
(* transcript, up to the units it hands to the embedding step.             *)
(***************************************************************************)
\* the longest transcript
MaxTurns == 4

ChatRoles == {<<"u", "s", "e", "r">>, <<"a", "g", "e", "n", "t">>, <<"s", "y", "s", "t", "e", "m">>}

ChatTurns ==
    [role : ChatRoles, content : {<<"h", "i">>, <<"o", "k">>}, timestamp : {"t1", "t2"}]

Transcripts == UNION {[1..n -> ChatTurns] : n \in 0..MaxTurns}

ToUpperChar(c) ==
    IF \E i \in 1..26 : LowerLetters[i] = c
    THEN UpperLetters[CHOOSE i \in 1..26 : LowerLetters[i] = c]
    ELSE c

\* String.prototype.toUpperCase
ToUpper(s) == [i \in 1..Len(s) |-> ToUpperChar(s[i])]

\* `msg.role === "user" && chats[i + 1]?.role === "agent"`
IsQaPair(chats, i) ==
    /\ chats[i].role = <<"u", "s", "e", "r">>
    /\ i + 1 <= Len(chats)
    /\ chats[i + 1].role = <<"a", "g", "e", "n", "t">>

\* the unit of a merged pair, and of a turn on its own: text and metadata
QaUnit(u, a) ==
    [text |-> <<"U", "s", "e", "r", ":", " ">> \o u.content \o <<"\n">> \o <<"A", "g", "e", "n", "t", ":", " ">>
                  \o a.content,
     meta |-> [type |-> "qa_pair", user_timestamp |-> u.timestamp,
               agent_timestamp |-> a.timestamp]]

SingleUnit(msg) ==
    [text |-> ToUpper(msg.role) \o <<":", " ">> \o msg.content,
     meta |-> [type |-> "single_message", timestamp |-> msg.timestamp]]

\* a loop that does not step over the agent turn of a pair
StepOverNothing(i, merged) == i + 1

\* the index after the turn at i: `i++` of the for statement, and the
\* `i++` of the merge
StepOver(i, merged) == IF merged THEN i + 2 ELSE i + 1

\* the for loop of buildChatEntries from turn i on
RECURSIVE ChatUnitsFrom(_, _)
ChatUnitsFrom(chats, i) ==
    IF i > Len(chats) THEN <<>>
    ELSE IF IsQaPair(chats, i)
    THEN <<QaUnit(chats[i], chats[i + 1])>>
             \o ChatUnitsFrom(chats, StepOver(i, TRUE))
    ELSE <<SingleUnit(chats[i])>>
             \o ChatUnitsFrom(chats, StepOver(i, FALSE))

InitChat ==
    /\ RetryIdle
    /\ RagIdle
    /\ rev = "R2" /\ hasKey = TRUE /\ envEmbedModel = ""
    /\ artifact = NoArtifact
    /\ BuildIdle
    /\ CallerIdle
    /\ callFn = "buildChatEntries"
    /\ callArg \in [chats : Transcripts]
    /\ callRet = [done |-> FALSE, value |-> <<>>]
    /\ callLocal = <<>>

CallBuildChatEntries ==
    /\ callFn = "buildChatEntries"
    /\ ~callRet.done
    /\ callRet' = [done |-> TRUE, value |-> ChatUnitsFrom(callArg.chats, 1)]
    /\ UNCHANGED <<callFn, callArg, callLocal>>
    /\ UNCHANGED <<retryVars, ragVars, buildVars, callerVars>>

NextChat == CallBuildChatEntries

SpecChat == InitChat /\ [][NextChat]_vars

(***************************************************************************)
(* Specification SpecEmbedAll: embedAll of the third revision of the       *)
(* script, one iteration of its loop at a time, on texts the provider      *)
(* embeds at the first request.  A text is known by its index, and so is   *)
(* its vector.                                                             *)
(***************************************************************************)
\* the most texts given to embedAll
MaxTexts == 5

\* the largest EMBED_BATCH_SIZE configured
MaxBatch == 3

\* the values of EMBED_BATCH_SIZE: Number(process.env.EMBED_BATCH_SIZE ||
\* 16) is whatever number the variable spells
BatchSizes == -1..MaxBatch

BATCH_THROTTLE_MS == 350

\* the most iterations of the loop that are followed
MaxIterations == MaxTexts + 2

\* Array.prototype.slice(start, end) on indices 0..n-1: the indices taken
SliceBound(n, k) == IF k < 0 THEN (IF n + k < 0 THEN 0 ELSE n + k)
                    ELSE Min(k, n)

SliceIndices(n, start, end) ==
    LET from == SliceBound(n, start)
        to   == SliceBound(n, end)
    IN  [j \in 1..(IF to > from THEN to - from ELSE 0) |-> from + j - 1]

\* what embedBatch(slice) does: a request per text, in order, and a short
\* sleep after every eighth
RECURSIVE BatchEvents(_, _)
BatchEvents(slice, j) ==
    IF j > Len(slice) THEN <<>>
    ELSE <<[op |-> "embed", arg |-> slice[j]]>>
             \o (IF j % 8 = 0 THEN <<[op |-> "sleep", arg |-> 120]>>
                 ELSE <<>>)
             \o BatchEvents(slice, j + 1)

\* `start += EMBED_BATCH_SIZE`
AdvanceStart(start, size) == start + size

\* `const end = Math.min(texts.length, start + EMBED_BATCH_SIZE)`
BatchEnd(n, start, size) == Min(n, start + size)

InitEmbedAll ==
    /\ RetryIdle
    /\ RagIdle
    /\ rev = "R2" /\ hasKey = TRUE /\ envEmbedModel = ""
    /\ artifact = NoArtifact
    /\ BuildIdle
    /\ CallerIdle
    /\ callFn = "embedAll"
    /\ callArg \in [n : 0..MaxTexts, size : BatchSizes]
    /\ callRet = [done |-> FALSE, value |-> <<>>]
    /\ callLocal = [start |-> 0, iter |-> 0, log |-> <<>>,
                    all |-> [k \in 0..(callArg.n - 1) |-> -1]]

\* one iteration of the for loop: the slice is embedded, its vectors are
\* stored at start + j, and the throttle sleep follows unless the slice
\* reached the end of the texts
EmbedAllIteration ==
    /\ callFn = "embedAll"
    /\ ~callRet.done
    /\ callLocal.start < callArg.n
    /\ callLocal.iter < MaxIterations
    /\ LET n     == callArg.n
           start == callLocal.start
           end   == BatchEnd(n, start, callArg.size)
           slice == SliceIndices(n, start, end)
       IN  callLocal' =
               [start |-> AdvanceStart(start, callArg.size),
                iter  |-> callLocal.iter + 1,
                log   |-> callLocal.log \o BatchEvents(slice, 1)
                              \o (IF end < n
                                  THEN <<[op |-> "sleep",
                                          arg |-> BATCH_THROTTLE_MS]>>
                                  ELSE <<>>),
                all   |-> [k \in 0..(n - 1) |->
                              IF \E j \in 1..Len(slice) : start + j - 1 = k
                              THEN slice[k - start + 1]
                              ELSE callLocal.all[k]]]
    /\ UNCHANGED <<callFn, callArg, callRet>>
    /\ UNCHANGED <<retryVars, ragVars, buildVars, callerVars>>

\* the loop is left: `return all`
EmbedAllReturns ==
    /\ callFn = "embedAll"
    /\ ~callRet.done
    /\ callLocal.start >= callArg.n
    /\ callRet' = [done |-> TRUE, value |-> callLocal.all]
    /\ UNCHANGED <<callFn, callArg, callLocal>>
    /\ UNCHANGED <<retryVars, ragVars, buildVars, callerVars>>

NextEmbedAll == EmbedAllIteration \/ EmbedAllReturns

SpecEmbedAll == InitEmbedAll /\ [][NextEmbedAll]_vars

(***************************************************************************)
(* Specification SpecLexical: the score lexicalRetrieve gives one entry    *)
(* for one query.                                                          *)
(***************************************************************************)
\* the most words in a query
MaxWords == 3

\* words of queries: terms of the entries in both cases, a term of one
\* character, a term of no entry, keywords of the pricing test
QueryWords ==
    {<<"s", "1", "9">>, <<"S", "1", "9">>, <<"a">>, <<"p", "r", "i", "c", "e">>, <<"m", "i", "n", "e", "r", "s", "!">>, <<"$">>, <<"g", "p", "u", "-", "x">>}

LexicalQueries ==
    {Join(ws, <<" ">>) : ws \in UNION {[1..n -> QueryWords] :
                                          n \in 0..MaxWords}}

LexicalEntries == {EntryPrice(<<>>), EntryBook(<<>>), EntryChat(<<>>)}

InitLexical ==
    /\ RetryIdle
    /\ RagIdle
    /\ rev = "R2" /\ hasKey = TRUE /\ envEmbedModel = ""
    /\ artifact = NoArtifact
    /\ BuildIdle
    /\ CallerIdle
    /\ callFn = "lexicalRetrieve"
    /\ callArg \in [query : LexicalQueries, entry : LexicalEntries]
    /\ callRet = [done |-> FALSE, value |-> <<>>]
    /\ callLocal = <<>>

\* the body of kb.map in lexicalRetrieve, for one entry: the score, in
\* halves
CallLexicalScore ==
    /\ callFn = "lexicalRetrieve"
    /\ ~callRet.done
    /\ callRet' = [done |-> TRUE,
                   value |-> LexicalScore(callArg.query, callArg.entry)]
    /\ UNCHANGED <<callFn, callArg, callLocal>>
    /\ UNCHANGED <<retryVars, ragVars, buildVars, callerVars>>

NextLexical == CallLexicalScore

SpecLexical == InitLexical /\ [][NextLexical]_vars

(***************************************************************************)
(* Specification SpecScore: the score the vector path gives one entry for  *)
(* one query, in the two revisions of lib/rag.ts that boost by model_name  *)
(* and product_id only (R2) and by the category too (R6).                  *)
(***************************************************************************)
ScoreRevisions == {"R2", "R6"}

ScoreWords == {<<"S", "1", "9">>, <<"p", "1">>, <<"m", "i", "n", "i", "n", "g">>, <<"h", "o", "s", "t", "i", "n", "g">>, <<"h", "i">>}

ScoreQueries ==
    {Join(ws, <<" ">>) : ws \in UNION {[1..n -> ScoreWords] : n \in 0..2}}

\* a price entry of the miner category (the product_id begins the text of
\* no keyword), the sample price entry, and the sample chat entry
EntryMiner(emb) ==
    MkEntry("price_p1", <<"p", "r", "i", "c", "e", "_", "s", "h", "e", "e", "t">>, <<"S", "1", "9", " ", "m", "i", "n", "e", "r", " ", "$", "2", "0", "0", "0">>,
            << <<<<"m", "o", "d", "e", "l", "_", "n", "a", "m", "e">>, <<"S", "1", "9">>>>, <<<<"p", "r", "o", "d", "u", "c", "t", "_", "i", "d">>, <<"p", "1">>>>,
               <<<<"c", "a", "t", "e", "g", "o", "r", "y">>, <<"M", "i", "n", "e", "r">>>> >>, emb)

ScoreEntries ==
    UNION {{EntryMiner(emb), EntryPrice(emb), EntryChat(emb)} :
              emb \in {Vec(3, 4), <<>>}}

InitScore ==
    /\ RetryIdle
    /\ RagIdle
    /\ rev = "R2" /\ hasKey = TRUE /\ envEmbedModel = ""
    /\ artifact = NoArtifact
    /\ BuildIdle
    /\ CallerIdle
    /\ callFn = "vectorScore"
    /\ callArg \in [rev : ScoreRevisions, query : ScoreQueries,
                    queryEmbedding : CosineVectors, entry : ScoreEntries]
    /\ callRet = [done |-> FALSE, value |-> <<>>]
    /\ callLocal = <<>>

\* the body of kb.map in retrieveRelevantContext, for one entry: the
\* similarity and the score, in hundredths
CallVectorScore ==
    /\ callFn = "vectorScore"
    /\ ~callRet.done
    /\ callRet' =
          [done |-> TRUE,
           value |->
              [sim |-> cosineSim(callArg.queryEmbedding,
                                 callArg.entry.embedding),
               score |->
                  IF callArg.rev = "R6"
                  THEN VectorScoreR6(callArg.queryEmbedding, callArg.query,
                                     callArg.entry)
                  ELSE VectorScore(callArg.queryEmbedding,
                                   ToLower(callArg.query), callArg.entry)]]
    /\ UNCHANGED <<callFn, callArg, callLocal>>
    /\ UNCHANGED <<retryVars, ragVars, buildVars, callerVars>>

NextScore == CallVectorScore

SpecScore == InitScore /\ [][NextScore]_vars

(***************************************************************************)
(* Specification SpecPick: pickEmbeddingModel step by step, for several    *)
(* requests handled at a time.  A request reads SELECTED_EMBED_MODEL when  *)
(* it enters and is then suspended at the await of each probe; the other   *)
(* requests run in between.  The probe of a candidate is one step, with    *)
(* its retries in revision R4.                                             *)
(***************************************************************************)
PickRevisions == {"R1", "R4"}

\* the candidates a request probes
PickList(r, override) ==
    IF override /= "" THEN <<override>>
    ELSE IF r = "R1" THEN EmbeddingModelCandidatesR1
    ELSE EmbeddingModelCandidatesR4

InitPick ==
    /\ RetryIdle
    /\ BuildIdle
    /\ CallIdle
    /\ CallerIdle
    /\ RagIdle
    /\ rev \in PickRevisions
    /\ hasKey = TRUE
    /\ envEmbedModel \in EnvEmbedModels(rev)
    /\ artifact = [exists |-> TRUE, kb |-> "embedded"]

\* `if (SELECTED_EMBED_MODEL) return SELECTED_EMBED_MODEL;` and, if not,
\* the first probe is sent
PickEnter(p) ==
    /\ requests[p].pc = "idle"
    /\ requests' =
          [requests EXCEPT ![p] =
              IF SELECTED_EMBED_MODEL /= ""
              THEN [pc |-> "returned", i |-> 0,
                    model |-> SELECTED_EMBED_MODEL]
              ELSE [pc |-> "probe", i |-> 1, model |-> ""]]
    /\ UNCHANGED cancelled
    /\ UNCHANGED <<retryVars, ragVars, buildVars, callVars>>

\* the probe a request awaits succeeds: the candidate is assigned to
\* SELECTED_EMBED_MODEL and returned
ProbeSucceeds(p) ==
    /\ requests[p].pc = "probe"
    /\ LET m == PickList(rev, envEmbedModel)[requests[p].i]
       IN  /\ SELECTED_EMBED_MODEL' = m
           /\ requests' = [requests EXCEPT
                              ![p] = [pc |-> "returned", i |-> 0,
                                      model |-> m]]
    /\ UNCHANGED cancelled
    /\ UNCHANGED <<rev, hasKey, envEmbedModel, artifact, KB_CACHE,
                   QUERY_EMBED_CACHE, provOk, eq, last>>
    /\ UNCHANGED <<retryVars, buildVars, callVars>>

\* the probe a request awaits fails: the override's probe throws out of
\* pickEmbeddingModel, a candidate's is caught and the next one is probed;
\* after the last candidate R1 throws and R4 assigns its last resort
ProbeFails(p) ==
    /\ requests[p].pc = "probe"
    /\ LET i == requests[p].i
       IN  IF envEmbedModel /= ""
           THEN /\ requests' = [requests EXCEPT
                                   ![p] = [pc |-> "threw", i |-> 0,
                                           model |-> ""]]
                /\ UNCHANGED SELECTED_EMBED_MODEL
           ELSE IF i < Len(PickList(rev, envEmbedModel))
           THEN /\ requests' = [requests EXCEPT ![p].i = i + 1]
                /\ UNCHANGED SELECTED_EMBED_MODEL
           ELSE IF rev = "R1"
           THEN /\ requests' = [requests EXCEPT
                                   ![p] = [pc |-> "threw", i |-> 0,
                                           model |-> ""]]
                /\ UNCHANGED SELECTED_EMBED_MODEL
           ELSE /\ SELECTED_EMBED_MODEL' = "models/gemini-embedding-001"
                /\ requests' = [requests EXCEPT
                                   ![p] = [pc |-> "returned", i |-> 0,
                                           model |->
                                               "models/gemini-embedding-001"]]
    /\ UNCHANGED cancelled
    /\ UNCHANGED <<rev, hasKey, envEmbedModel, artifact, KB_CACHE,
                   QUERY_EMBED_CACHE, provOk, eq, last>>
    /\ UNCHANGED <<retryVars, buildVars, callVars>>

\* the request is over (embedQuery has used the model returned to it, or
\* the throw has reached the caller); the server takes the next one
RequestEnds(p) ==
    /\ requests[p].pc \in {"returned", "threw"}
    /\ requests' = [requests EXCEPT ![p] = IdleRequest]
    /\ UNCHANGED cancelled
    /\ UNCHANGED <<retryVars, ragVars, buildVars, callVars>>

NextPick ==
    \E p \in Requests :
        \/ PickEnter(p)
        \/ ProbeSucceeds(p)
        \/ ProbeFails(p)
        \/ RequestEnds(p)

SpecPick == InitPick /\ [][NextPick]_vars

(***************************************************************************)
(* The chat handler (pages/api/chat.ts 1-199).                             *)
(***************************************************************************)
DEFAULT_MODEL == <<"g", "e", "m", "i", "n", "i", "-", "2", ".", "0", "-", "f", "l", "a", "s", "h">>

FALLBACK_MODELS ==
    <<<<"g", "e", "m", "i", "n", "i", "-", "2", ".", "0", "-", "f", "l", "a", "s", "h">>, <<"g", "e", "m", "i", "n", "i", "-", "2", ".", "0", "-", "f", "l", "a", "s", "h", "-", "l", "i", "t", "e">>,
      <<"g", "e", "m", "i", "n", "i", "-", "2", ".", "5", "-", "f", "l", "a", "s", "h", "-", "l", "i", "t", "e">>>>

ModelsPrefix == <<"m", "o", "d", "e", "l", "s", "/">>

\* s.startsWith(p)
StartsWith(s, p) == Len(s) >= Len(p) /\ SubSeq(s, 1, Len(p)) = p

\* normalizeModelName: trim, then drop a leading "models/"
normalizeModelName(name) ==
    LET n == Trim(name)
    IN  IF n = <<>> THEN <<>>
        ELSE IF StartsWith(n, ModelsPrefix)
        THEN SubSeq(n, Len(ModelsPrefix) + 1, Len(n))
        ELSE n

\* Array.from(new Set(xs)): the first occurrence of each element, in order
RECURSIVE Dedupe(_)
Dedupe(xs) ==
    IF xs = <<>> THEN <<>>
    ELSE LET init == Dedupe(SubSeq(xs, 1, Len(xs) - 1))
             x    == xs[Len(xs)]
         IN  IF \E i \in 1..Len(init) : init[i] = x THEN init
             ELSE Append(init, x)

\* pickModelCandidates without the de-duplication
pickModelCandidatesKeepsAll(env) ==
    LET envModel == normalizeModelName(env)
    IN  <<IF envModel /= <<>> THEN envModel ELSE DEFAULT_MODEL>>
            \o SelectSeq(FALLBACK_MODELS, LAMBDA m : m /= envModel)

\* pickModelCandidates, env being process.env.GEMINI_MODEL || ""
pickModelCandidates(env) ==
    LET envModel == normalizeModelName(env)
    IN  Dedupe(<<IF envModel /= <<>> THEN envModel ELSE DEFAULT_MODEL>>
                   \o SelectSeq(FALLBACK_MODELS, LAMBDA m : m /= envModel))

\* the maxRetries the handler passes to withRetry
HandlerMaxRetries == 6

\* the content of the last message as it was sent
UserQueryRaw(messages) == messages[Len(messages)].content

\* (latest?.content || "").trim() of the last message
UserQuery(messages) == Trim(messages[Len(messages)].content)

\* the catch block of the candidate loop: `continue` after a 404 and after
\* a 429, `break` after anything else
Continues(err) == err.status = 404 \/ err.status = 429

\* res.status(code).json(...): what the handler sent
\*   model    the model of a 200 (<<>> otherwise)
\*   details  the error a 500 carries
Response(code, model, err) == [status |-> code, model |-> model, details |-> err]

\* the error thrown by response.response.text() and by getGeminiClient, by
\* retrieveRelevantContext: errors without a status
ResponseTextError == MkErr(0, FALSE, FALSE, <<>>)

\* the requests sent to the handler
Msg(role, content) == [role |-> role, content |-> content]

MessageLists ==
    {<<>>,
     <<Msg("user", <<>>)>>,
     <<Msg("user", <<" ">>)>>,
     <<Msg("user", <<"h", "i">>)>>,
     <<Msg("user", <<"h", "i">>), Msg("assistant", <<"y", "o">>), Msg("user", <<"\t", "\n">>)>>,
     <<Msg("user", <<" ">>), Msg("assistant", <<"y", "o">>), Msg("user", <<" ", "s", "1", "9", " ">>)>>}

Methods == {"POST", "GET", "PUT"}

\* values of process.env.GEMINI_MODEL ("" when unset)
EnvModels ==
    {<<>>, <<" ">>, <<"m", "o", "d", "e", "l", "s", "/", "g", "e", "m", "i", "n", "i", "-", "2", ".", "0", "-", "f", "l", "a", "s", "h">>, <<"g", "e", "m", "i", "n", "i", "-", "2", ".", "5", "-", "f", "l", "a", "s", "h", "-", "l", "i", "t", "e">>,
     <<" ", "m", "o", "d", "e", "l", "s", "/", "c", "u", "s", "t", "o", "m", " ">>}

\* the faults of model.generateContent: one error per status, and a 429
\* that carries a retry hint
GenerateFaults ==
    {f \in ProviderFaults :
        \/ ~f.err.hasDetails /\ f.err.msg429 = (f.err.status = 429)
        \/ f.err.status = 429 /\ f.hint = 12}

\* model.generateContent rejects
GenerateRejects == RetryFnRejectsWith(GenerateFaults)

HandlerStart ==
    [pc |-> "start", query |-> <<>>, candidates |-> <<>>, i |-> 0,
     lastErr |-> NoErr, tried |-> <<>>, retrievals |-> 0, sent |-> <<>>]

(***************************************************************************)
(* Specification SpecHandler: one request to the chat handler.             *)
(*   callArg    [method, messages, envModel]                               *)
(*   callLocal  pc ("start", "retrieve", "generate", "done"), the          *)
(*              candidates and the index i of the one being tried,         *)
(*              lastErr, tried (per candidate tried: its model and the     *)
(*              status it failed with, -1 for a reply), retrievals (calls  *)
(*              of retrieveRelevantContext) and sent (the responses sent)  *)
(* withRetry runs as the retry machine does, against a provider that       *)
(* fails with each status and with a hinted 429.                           *)
(***************************************************************************)
InitHandler ==
    /\ RetryIdle
    /\ RagIdle
    /\ BuildIdle
    /\ CallerIdle
    /\ rev = "R2" /\ envEmbedModel = ""
    /\ artifact = NoArtifact
    /\ hasKey \in BOOLEAN
    /\ callFn = "handler"
    /\ \E method \in Methods, messages \in MessageLists, env \in EnvModels :
          callArg = [method |-> method, messages |-> messages,
                     envModel |-> env]
    /\ callRet = [done |-> FALSE, value |-> <<>>]
    /\ callLocal = HandlerStart

\* the handler sends a response and returns
Sends(resp) ==
    /\ callLocal' = [callLocal EXCEPT !.pc = "done",
                                      !.sent = Append(@, resp)]
    /\ callRet' = [done |-> TRUE, value |-> resp]

\* `await withRetry(() => model.generateContent(...), label, 6)` for the
\* candidate at index i
StartsWithRetry ==
    /\ rImpl' = "chat"
    /\ maxRetries' = HandlerMaxRetries
    /\ attempt' = 0
    /\ rpc' = "call"
    /\ lastErr' = NoErr
    /\ hintN' = -1
    /\ backoffMs' = 0
    /\ nCalls' = 0
    /\ thrownErr' = NoErr
    /\ allRetryable' = TRUE
    /\ warned' = NoWarning

\* lines 95-108: the method and the messages are checked, and
\* retrieveRelevantContext is called
HandlerEnter ==
    /\ callFn = "handler" /\ callLocal.pc = "start"
    /\ IF callArg.method /= "POST"
       THEN Sends(Response(405, <<>>, NoErr))
       ELSE IF Len(callArg.messages) = 0
       THEN Sends(Response(400, <<>>, NoErr))
       ELSE IF UserQuery(callArg.messages) = <<>>
       THEN Sends(Response(400, <<>>, NoErr))
       ELSE /\ callLocal' = [callLocal EXCEPT
                                !.pc = "retrieve",
                                !.query = UserQuery(callArg.messages),
                                !.retrievals = @ + 1]
            /\ UNCHANGED callRet
    /\ UNCHANGED <<callFn, callArg>>
    /\ UNCHANGED <<retryVars, ragVars, buildVars, callerVars>>

\* lines 108-159: retrieveRelevantContext settles; the prompt is built, the
\* client is made, the candidates are picked and the first one is called.
\* A throw of retrieveRelevantContext or of getGeminiClient lands in the
\* outer catch.
HandlerRetrieved ==
    /\ callFn = "handler" /\ callLocal.pc = "retrieve"
    /\ \E threw \in BOOLEAN :
          IF threw \/ ~hasKey
          THEN /\ Sends(Response(500, <<>>, ResponseTextError))
               /\ UNCHANGED retryVars
          ELSE /\ callLocal' = [callLocal EXCEPT
                                   !.pc = "generate",
                                   !.candidates =
                                       pickModelCandidates(callArg.envModel),
                                   !.i = 1]
               /\ StartsWithRetry
               /\ UNCHANGED callRet
    /\ UNCHANGED <<callFn, callArg>>
    /\ UNCHANGED <<ragVars, buildVars, callerVars>>

\* lines 161-162 and line 181: withRetry returned; response.response.text()
\* gives the reply, or throws an error without a status, and the catch
\* block breaks out of the loop
HandlerModelReturned ==
    /\ callFn = "handler" /\ callLocal.pc = "generate" /\ rpc = "returned"
    /\ LET modelName == callLocal.candidates[callLocal.i] IN
       \E textThrows \in BOOLEAN :
          LET t == Append(callLocal.tried,
                          [model |-> modelName,
                           status |-> IF textThrows THEN 0 ELSE -1])
          IN  IF textThrows
              THEN /\ callLocal' =
                          [callLocal EXCEPT
                              !.pc = "done", !.tried = t,
                              !.lastErr = ResponseTextError,
                              !.sent = Append(@, Response(500, <<>>,
                                                      ResponseTextError))]
                   /\ callRet' = [done |-> TRUE,
                                  value |-> Response(500, <<>>,
                                                     ResponseTextError)]
              ELSE /\ callLocal' =
                          [callLocal EXCEPT
                              !.pc = "done", !.tried = t,
                              !.sent = Append(@, Response(200, modelName,
                                                          NoErr))]
                   /\ callRet' = [done |-> TRUE,
                                  value |-> Response(200, modelName, NoErr)]
    /\ rpc' = "idle"
    /\ UNCHANGED <<rImpl, maxRetries, attempt, lastErr, hintN, backoffMs,
                   nCalls, thrownErr, allRetryable, warned>>
    /\ UNCHANGED <<callFn, callArg>>
    /\ UNCHANGED <<ragVars, buildVars, callerVars>>

\* lines 163-191: withRetry threw; lastErr = err, then `continue` to the
\* next candidate, if there is one, or the 500 after the loop
HandlerModelThrew ==
    /\ callFn = "handler" /\ callLocal.pc = "generate" /\ rpc = "thrown"
    /\ LET modelName == callLocal.candidates[callLocal.i]
           t == Append(callLocal.tried,
                       [model |-> modelName, status |-> thrownErr.status])
       IN  IF Continues(thrownErr) /\ callLocal.i < Len(callLocal.candidates)
           THEN /\ callLocal' = [callLocal EXCEPT !.tried = t,
                                                  !.lastErr = thrownErr,
                                                  !.i = @ + 1]
                /\ StartsWithRetry
                /\ UNCHANGED callRet
           ELSE /\ callLocal' =
                       [callLocal EXCEPT
                           !.pc = "done", !.tried = t,
                           !.lastErr = thrownErr,
                           !.sent = Append(@, Response(500, <<>>, thrownErr))]
                /\ callRet' = [done |-> TRUE,
                               value |-> Response(500, <<>>, thrownErr)]
                /\ rpc' = "idle"
                /\ UNCHANGED <<rImpl, maxRetries, attempt, lastErr, hintN,
                               backoffMs, nCalls, thrownErr, allRetryable,
                               warned>>
    /\ UNCHANGED <<callFn, callArg>>
    /\ UNCHANGED <<ragVars, buildVars, callerVars>>

NextHandler ==
    \/ HandlerEnter
    \/ HandlerRetrieved
    \/ RetryFnResolves
    \/ GenerateRejects
    \/ RetrySleepDone
    \/ HandlerModelReturned
    \/ HandlerModelThrew

SpecHandler == InitHandler /\ [][NextHandler]_vars

\* the event loop settles every pending call and fires every timer
SpecHandlerFair ==
    /\ SpecHandler
    /\ WF_vars(HandlerEnter)
    /\ WF_vars(HandlerRetrieved)
    /\ WF_vars(RetryFnResolves \/ GenerateRejects)
    /\ WF_vars(RetrySleepDone)
    /\ WF_vars(HandlerModelReturned)
    /\ WF_vars(HandlerModelThrew)
(***************************************************************************)
(* Properties of retrieval and of the query-embedding cache.               *)
(***************************************************************************)

\* C1: when no embedding request has ever succeeded and the knowledge base
\* has entries, a retrieveRelevantContext call does not throw and returns
\* the lexical top-K (revisions R2 and R3, with the credential present).
C1_FallbackOnProviderFailure ==
    (/\ rev \in {"R2", "R3"}
     /\ hasKey
     /\ last.done
     /\ ~provOk
     /\ Len(KBContent(KB_CACHE.kb)) > 0)
        => /\ ~last.threw
           /\ last.result =
                  lexicalRetrieve(KBContent(KB_CACHE.kb), last.query, last.topK)

\* C2: a retrieveRelevantContext call with topK >= 0 that returns, returns
\* at most topK entries, whichever path scored them.
C2_AtMostTopK ==
    (last.done /\ ~last.threw /\ last.topK >= 0)
        => Len(last.result) <= last.topK

\* the lexical fallback after a failed embedQuery cut three scored entries
\* down to two
C2_Witness ==
    /\ last.done /\ last.path = "lexical" /\ eq.done /\ eq.threw
    /\ Len(KBContent(KB_CACHE.kb)) = KBSize
    /\ last.topK = 2 /\ Len(last.result) = 2

\* C3: once the first load found no artifact, the knowledge base is and
\* stays the empty sequence, and every retrieveRelevantContext call returns
\* the empty sequence without throwing and without a provider request.
C3_MissingArtifactIsEmptyKB ==
    [][/\ KB_CACHE.origin = "missing" => KB_CACHE'.origin = "missing"
       /\ KB_CACHE'.origin = "missing" =>
            /\ KBContent(KB_CACHE'.kb) = <<>>
            /\ last'.done =>
                 /\ ~last'.threw
                 /\ last'.result = <<>>
                 /\ last'.calls = 0
                 /\ ~eq'.done
                 /\ QUERY_EMBED_CACHE' = <<>>]_vars

\* a call served from the empty knowledge base although an embedded
\* artifact has been written since the first load
C3_Witness ==
    /\ KB_CACHE.origin = "missing"
    /\ artifact = [exists |-> TRUE, kb |-> "embedded"]
    /\ hasKey
    /\ last.done /\ last.path = "empty" /\ last.result = <<>>

\* C4: when an embedQuery call that missed the cache, made one provider
\* request and returned is followed by a call whose text has the same
\* trimmed and truncated key, the second call makes no provider request
\* and returns the vector of the first from the cache (revisions R2 and
\* R4).
C4_SameKeyOneRequest ==
    [][(/\ rev \in {"R2", "R4"}
        /\ eq.done /\ ~eq.threw /\ ~eq.hit /\ eq.calls = 1
        /\ eq'.done
        /\ QueryKey(eq'.text) = QueryKey(eq.text))
           => /\ eq'.calls = 0
              /\ eq'.hit
              /\ eq'.vec = eq.vec]_vars

\* C5: an embedQuery call that adds a key to a full cache evicts the key
\* inserted earliest, and a call for a key that is not in the cache makes
\* a provider request (revisions R2 and R3, with the credential present).
C5_EvictsOldest ==
    [][(rev \in {"R2", "R3"} /\ hasKey /\ eq'.done) =>
          /\ (/\ ~eq'.threw /\ ~eq'.hit
              /\ Len(QUERY_EMBED_CACHE) = QUERY_EMBED_CACHE_MAX)
                 => QUERY_EMBED_CACHE' =
                        Append(Tail(QUERY_EMBED_CACHE),
                               [key |-> eq'.key, vec |-> eq'.vec])
          /\ eq'.key \notin CacheKeys(QUERY_EMBED_CACHE) => eq'.calls >= 1]_vars

\* C6: the query-embedding cache never holds more than
\* QUERY_EMBED_CACHE_MAX entries.
C6_CacheBounded == Len(QUERY_EMBED_CACHE) <= QUERY_EMBED_CACHE_MAX


(***************************************************************************)
(* C37: an embedQuery call that is served from the cache, and one that     *)
(* throws, leave QUERY_EMBED_CACHE as it was, keys, vectors and order; a   *)
(* call after which the cache holds a key it did not hold is a miss that   *)
(* succeeded, and the key is the one it computed (revisions R2 and R3).    *)
(***************************************************************************)
C37_HitAndFailureLeaveCache ==
    [][(rev \in {"R2", "R3"} /\ eq'.done) =>
          /\ (eq'.hit \/ eq'.threw) =>
                QUERY_EMBED_CACHE' = QUERY_EMBED_CACHE
          /\ CacheKeys(QUERY_EMBED_CACHE') \ CacheKeys(QUERY_EMBED_CACHE)
                 /= {} =>
                /\ ~eq'.hit /\ ~eq'.threw
                /\ CacheKeys(QUERY_EMBED_CACHE')
                       \ CacheKeys(QUERY_EMBED_CACHE) = {eq'.key}]_vars

\* a hit on the oldest key of a full cache, which is still the oldest
C37_Witness ==
    /\ rev \in {"R2", "R3"}
    /\ eq.done /\ eq.hit
    /\ Len(QUERY_EMBED_CACHE) = QUERY_EMBED_CACHE_MAX
    /\ QUERY_EMBED_CACHE[1].key = eq.key

(***************************************************************************)
(* C38: a retrieveRelevantContext call of R2 on a knowledge base that has  *)
(* entries, with topK >= 0, returns exactly min(topK, |KB|) entries on     *)
(* the vector path and on the lexical path; each is an entry of the        *)
(* knowledge base, none is returned twice, and entries that scored zero    *)
(* are returned like the others.                                           *)
(***************************************************************************)
C38_ExactlyMinTopKDistinctEntries ==
    LET kb == KBContent(KB_CACHE.kb)
    IN  (/\ rev = "R2" /\ last.done /\ last.topK >= 0 /\ Len(kb) > 0
         /\ last.path \in {"vector", "lexical"})
            => /\ ~last.threw
               /\ Len(last.result) = Min(last.topK, Len(kb))
               /\ \A i \in 1..Len(last.result) : last.result[i] \in 1..Len(kb)
               /\ \A i, j \in 1..Len(last.result) :
                      last.result[i] = last.result[j] => i = j

\* a lexical call whose query has no term: every entry scores zero, and
\* topK above the size of the knowledge base returns all of them
C38_Witness ==
    /\ rev = "R2" /\ last.done /\ last.path = "lexical"
    /\ last.query = <<" ">>
    /\ last.topK > KBSize
    /\ Len(last.result) = KBSize
(***************************************************************************)
(* Properties of the choice of the embedding model.                        *)
(***************************************************************************)
\* some use of a model in reqs gave a usable answer
HasOk(reqs) == \E i \in 1..Len(reqs) : reqs[i].ok

\* the model of the first such use
FirstOkModel(reqs) ==
    reqs[CHOOSE i \in 1..Len(reqs) :
            reqs[i].ok /\ \A j \in 1..(i - 1) : ~reqs[j].ok].model

\* the models a revision probes, in order
ProbeList(r, override) ==
    CASE r = "R3" -> EmbedModelCandidatesR3(override)
      [] r = "R1" -> IF override /= "" THEN <<override>>
                     ELSE EmbeddingModelCandidatesR1
      [] OTHER    -> IF override /= "" THEN <<override>>
                     ELSE EmbeddingModelCandidatesR4

\* the probes among the uses of a call; R3 has no separate probe, its
\* requests for the text are its probes
Probes(r, reqs) ==
    IF r = "R3" THEN reqs ELSE SelectSeq(reqs, LAMBDA q : q.probe)

\* the model the process is committed to: the selected one, or (R3, which
\* keeps none) the one that served the last call
Committed ==
    IF SELECTED_EMBED_MODEL /= "" THEN SELECTED_EMBED_MODEL
    ELSE IF eq.done /\ HasOk(eq.reqs) THEN FirstOkModel(eq.reqs)
    ELSE ""

\* C11: an embedQuery call made while no model is committed, in which a
\* probe succeeds, probes the candidates in list order up to the first
\* success and commits to it; a call made once a model is committed sends
\* no probe and uses no other model (revisions R1, R3 and R4).
C11_ProbeOnceThenCommitted ==
    [][(rev \in {"R1", "R3", "R4"} /\ eq'.done) =>
          LET t == Probes(rev, eq'.reqs)
              l == ProbeList(rev, envEmbedModel)
          IN  /\ (Committed = "" /\ HasOk(t)) =>
                    /\ Len(t) <= Len(l)
                    /\ \A i \in 1..Len(t) :
                          /\ t[i].model = l[i]
                          /\ t[i].ok <=> i = Len(t)
                    /\ rev /= "R3" =>
                          SELECTED_EMBED_MODEL' = t[Len(t)].model
              /\ Committed /= "" =>
                    \A i \in 1..Len(eq'.reqs) :
                        /\ ~eq'.reqs[i].probe
                        /\ eq'.reqs[i].model = Committed]_vars

\* C12: with an override configured, every request of an embedQuery call,
\* probe or not, goes to the override model (revisions R1 and R3).
C12_OverrideOnly ==
    (rev \in {"R1", "R3"} /\ envEmbedModel /= "" /\ eq.done) =>
        \A i \in 1..Len(eq.reqs) : eq.reqs[i].model = envEmbedModel

\* C13: a vector that embedQuery returns, and every vector in the query
\* cache, has at least ten dimensions (revisions R2, R3 and R4).
C13_NoShortVector ==
    rev \in {"R2", "R3", "R4"} =>
        /\ (eq.done /\ ~eq.threw) => Len(eq.vec) >= 10
        /\ \A i \in 1..Len(QUERY_EMBED_CACHE) :
              Len(QUERY_EMBED_CACHE[i].vec) >= 10

\* C14: without GEMINI_API_KEY, a retrieveRelevantContext call on a
\* knowledge base that has embeddings throws (revision R2).
C14_MissingCredentialSurfaces ==
    (/\ rev = "R2"
     /\ ~hasKey
     /\ last.done
     /\ kbHasEmbeddings(KBContent(KB_CACHE.kb)))
        => last.threw


(***************************************************************************)
(* C28: an embedQuery call that probes while no model is selected and in   *)
(* which no probe succeeds fails and selects no model; and a call that     *)
(* selects a model selects one whose probe succeeded in that call          *)
(* (revisions R1 and R4).                                                  *)
(***************************************************************************)
C28_ExhaustedCommitsNothing ==
    [][(rev \in {"R1", "R4"} /\ eq'.done /\ SELECTED_EMBED_MODEL = "") =>
          LET t == Probes(rev, eq'.reqs)
          IN  /\ (Len(t) > 0 /\ ~HasOk(t)) =>
                    /\ eq'.threw
                    /\ SELECTED_EMBED_MODEL' = ""
              /\ SELECTED_EMBED_MODEL' /= "" =>
                    \E i \in 1..Len(t) :
                        t[i].ok /\ t[i].model = SELECTED_EMBED_MODEL']_vars

(***************************************************************************)
(* C29: with several requests in pickEmbeddingModel at a time, each        *)
(* suspended at its own probes, the selected model, once set, is never     *)
(* set to another one, and the requests that hold a model returned by      *)
(* pickEmbeddingModel hold the same one (revisions R1 and R4).             *)
(***************************************************************************)
C29_CommittedModelNeverReplaced ==
    [][/\ SELECTED_EMBED_MODEL /= "" =>
              SELECTED_EMBED_MODEL' = SELECTED_EMBED_MODEL
       /\ \A p, q \in Requests :
              (requests'[p].pc = "returned" /\ requests'[q].pc = "returned")
                  => requests'[p].model = requests'[q].model]_vars
(***************************************************************************)
(* Properties of the cached knowledge base and of the ranking.             *)
(***************************************************************************)
\* what a call that returned by the given path returns when it scores the
\* knowledge base named kb
ResultOver(r, kb, call, vec) ==
    CASE call.path = "empty"   -> <<>>
      [] call.path = "lexical" ->
            Tabulated(kb, call.query, call.topK, <<>>).lexical
      [] OTHER ->
            IF r = "R1"
            THEN Tabulated(kb, call.query, call.topK, vec).vectorR1
            ELSE Tabulated(kb, call.query, call.topK, vec).vector

ScoresOver(r, kb, call, vec) ==
    CASE call.path = "lexical" ->
            Tabulated(kb, call.query, call.topK, <<>>).lexicalScores
      [] r = "R1" ->
            Tabulated(kb, call.query, call.topK, vec).vectorScoresR1
      [] OTHER ->
            Tabulated(kb, call.query, call.topK, vec).vectorScores

\* the place of entry i in the ranking by the scores sc: one more than the
\* number of entries that score higher, or the same and come earlier
RankOf(sc, i) ==
    1 + Cardinality({j \in 1..Len(sc) :
                        sc[j] > sc[i] \/ (sc[j] = sc[i] /\ j < i)})

\* C16: a retrieveRelevantContext call with topK >= 0 that scored the
\* knowledge base returns the entries of the first topK places of the
\* ranking by descending score, equal scores in knowledge-base order.
C16_RankedStableTopK ==
    (last.done /\ ~last.threw /\ last.path /= "empty" /\ last.topK >= 0) =>
        LET sc == ScoresOver(rev, KB_CACHE.kb, last, eq.vec)
        IN  /\ Len(last.result) = Min(last.topK, Len(sc))
            /\ \A k \in 1..Len(last.result) :
                  RankOf(sc, last.result[k]) = k

\* a lexical call in which every entry scored the same: the first two in
\* knowledge-base order are returned
C16_Witness ==
    /\ last.done /\ ~last.threw /\ last.path = "lexical"
    /\ LET sc == ScoresOver(rev, KB_CACHE.kb, last, eq.vec)
       IN  Len(sc) = KBSize /\ \A i \in 1..Len(sc) : sc[i] = sc[1]
    /\ last.topK = 2
    /\ last.result = <<1, 2>>

\* the metadata boost the vector scoring gives an entry for a query
BoostOf(entry, query) ==
    MetaBoost(entry.metadata, <<"m", "o", "d", "e", "l", "_", "n", "a", "m", "e">>, ToLower(query), 4)
        + MetaBoost(entry.metadata, <<"p", "r", "o", "d", "u", "c", "t", "_", "i", "d">>, ToLower(query), 2)

\* a and b, compared over their common dimensions as cosineSim compares
\* them, point in the same direction (their cosine is 1)
SameDirection(a, b) ==
    LET len == Min(Len(a), Len(b))
        dot == DotTo(a, b, len)
    IN  dot > 0 /\ dot * dot = DotTo(a, a, len) * DotTo(b, b, len)

\* the last call scored, for topK >= 1, a knowledge base of three embedded
\* entries with the vector of the second entry
SelfMatchCall ==
    LET kb == KBContent(KB_CACHE.kb)
    IN  /\ last.done /\ ~last.threw /\ last.path = "vector"
        /\ last.topK >= 1
        /\ Len(kb) = 3
        /\ \A i \in 1..3 : Len(kb[i].embedding) > 0
        /\ eq.vec = kb[2].embedding

\* C17 as stated: in such a call the second entry is first in the result,
\* whatever the other embeddings, the metadata and the query text.
C17_SecondAlwaysFirst ==
    SelfMatchCall => last.result[1] = 2

\* C17 as amended: in such a call the second entry is first in the result
\* when its vector is not all-zero and neither of the other entries gets a
\* metadata boost from the query or points in the direction of the query
\* vector.
C17_SecondFirstUnlessBoostedOrParallel ==
    LET kb == KBContent(KB_CACHE.kb)
    IN  (/\ SelfMatchCall
         /\ DotTo(eq.vec, eq.vec, Len(eq.vec)) > 0
         /\ \A i \in {1, 3} :
               /\ BoostOf(kb[i], last.query) = 0
               /\ ~SameDirection(eq.vec, kb[i].embedding))
            => last.result[1] = 2

\* the second entry won against a first entry with a longer vector at a
\* cosine of 63/65
C17_Witness ==
    /\ SelfMatchCall
    /\ KB_CACHE.kb = "longFirst"
    /\ BoostOf(KBContent(KB_CACHE.kb)[3], last.query) = 0
    /\ last.result[1] = 2


(***************************************************************************)
(* C18: the query cache is only an optimization: the vector served from    *)
(* the cache for a query is the embedding of that query's own text, so     *)
(* that a hit returns what the provider would have returned.  The          *)
(* provider's answer to a text is the vector ProviderVec(text) or the      *)
(* first dimensions of it.                                                 *)
(***************************************************************************)
\* vec is what the provider answers, in full or in part, to text
EmbeddingOf(text, vec) ==
    /\ Len(vec) <= Len(ProviderVec(text))
    /\ vec = SubSeq(ProviderVec(text), 1, Len(vec))

C18_CacheServesOwnEmbedding ==
    (rev \in {"R2", "R4", "R5"} /\ eq.done /\ eq.hit) =>
        EmbeddingOf(eq.text, eq.vec)

(***************************************************************************)
(* C27: when the loaded knowledge base is not empty and none of its        *)
(* entries has an embedding, a retrieveRelevantContext call of lib/rag.ts  *)
(* returns the lexical ranking without calling embedQuery: no provider     *)
(* request, no throw with or without a credential, and the query cache and *)
(* the committed model as they were.                                       *)
(***************************************************************************)
C27_UnembeddedGoesLexical ==
    [][(/\ rev = "R2"
        /\ artifact' = artifact
        /\ last'.done
        /\ KB_CACHE'.kb = "unembedded") =>
          /\ last'.path = "lexical"
          /\ ~last'.threw
          /\ last'.calls = 0
          /\ last'.result =
                Tabulated("unembedded", last'.query, last'.topK, <<>>).lexical
          /\ eq' = NoEmbedCall
          /\ QUERY_EMBED_CACHE' = QUERY_EMBED_CACHE
          /\ SELECTED_EMBED_MODEL' = SELECTED_EMBED_MODEL]_vars

\* a lexical ranking returned over the unembedded knowledge base by a
\* process that has no credential
C27_Witness ==
    /\ rev = "R2"
    /\ ~hasKey
    /\ KB_CACHE = [loaded |-> TRUE, kb |-> "unembedded", origin |-> "file"]
    /\ last.done /\ ~last.threw /\ last.path = "lexical"
    /\ Len(last.result) > 0
    /\ eq = NoEmbedCall
(***************************************************************************)
(* Claims on the knowledge base compiler                                   *)
(***************************************************************************)
\* the run is over
Ended == pc \in {"done", "failed"}

\* the text units of all the present, well-formed inputs, in the order of
\* the sources
RECURSIVE UnitsFrom(_, _, _)
UnitsFrom(r, inp, i) ==
    IF i > Len(Sources(r)) THEN <<>>
    ELSE inp[Sources(r)[i]].units \o UnitsFrom(r, inp, i + 1)

TextsOf(kb) == [i \in 1..Len(kb) |-> kb[i].text]

(***************************************************************************)
(* C19: a provider failure on the embedding of a single text unit does not *)
(* abort the run: with the credential present (and no other error), the    *)
(* run ends with the artifact written and the text of every unit in it.    *)
(***************************************************************************)
C19_UnitFailureDoesNotAbort ==
    (Ended /\ envKey /\ failure \notin {"parse", "model"}) =>
        /\ pc = "done"
        /\ outFile.written
        /\ TextsOf(outFile.kb) = UnitsFrom(scriptRev, inputs, 1)

(***************************************************************************)
(* C20: an absent input file is skipped: the build function of an absent   *)
(* source adds no entry and hands over to the next stage, never to the     *)
(* failure exit; and a run that reaches its end has written the artifact   *)
(* with exactly the units of the present sources.                          *)
(***************************************************************************)
C20_AbsentInputSkipped ==
    [][/\ (pc \in SourceSet(scriptRev) /\ ~inputs[pc].exists) =>
            /\ pc' = NextStage(scriptRev, pc)
            /\ entries' = entries
            /\ failure' = ""
       /\ pc' = "done" =>
            /\ outFile'.written
            /\ TextsOf(outFile'.kb) = UnitsFrom(scriptRev, inputs, 1)
            /\ \A s \in SourceSet(scriptRev) :
                  ~inputs[s].exists =>
                      \A i \in 1..Len(outFile'.kb) :
                          outFile'.kb[i].source /= s]_vars

\* a finished run that skipped an absent source and wrote the entries of
\* another
C20_Witness ==
    /\ pc = "done"
    /\ \E s \in SourceSet(scriptRev) : ~inputs[s].exists
    /\ outFile.written
    /\ Len(outFile.kb) > 0

(***************************************************************************)
(* C21: the compiler is idempotent: when a run writes the artifact over    *)
(* the artifact of an earlier run on the same inputs, and the provider was *)
(* deterministic (it gave one answer per model and text) and one model was *)
(* used throughout, the new artifact is the old one: the same entries in   *)
(* the same order, with equal ids, texts and embeddings, nothing appended. *)
(***************************************************************************)
\* the provider gave the same answer whenever it was asked the same thing
Deterministic(obs) ==
    \A a, b \in obs : (a.model = b.model /\ a.text = b.text) => a.resp = b.resp

\* every answer came from the same model
OneModel(obs) == \A a, b \in obs : a.model = b.model

C21_CompilerIdempotent ==
    [][(/\ pc = "write" /\ pc' = "done"
        /\ outFile.written
        /\ Deterministic(observed)
        /\ OneModel(observed)) => outFile'.kb = outFile.kb]_vars

\* a second run has written a non-empty artifact, the provider having been
\* deterministic over both runs
C21_Witness ==
    /\ rerun
    /\ pc = "done"
    /\ Len(outFile.kb) > 0
    /\ \A i \in 1..Len(outFile.kb) : Len(outFile.kb[i].embedding) > 0
    /\ Deterministic(observed)
    /\ OneModel(observed)

(***************************************************************************)
(* C22: a reader of the artifact path never observes a partially written   *)
(* knowledge base: what loadKB reads while a build runs is the whole old   *)
(* artifact (or none) or the whole new one.                                *)
(***************************************************************************)
C22_ReaderSeesWholeArtifact ==
    readKB.done => readKB.raw \in {"absent", "whole"}

(***************************************************************************)
(* C23: in every compiled knowledge base no two entries of the same source *)
(* category have the same id.                                              *)
(***************************************************************************)
C23_IdsUniqueWithinSource ==
    pc = "done" =>
        \A i, j \in 1..Len(outFile.kb) :
            (i /= j /\ outFile.kb[i].source = outFile.kb[j].source)
                => outFile.kb[i].id /= outFile.kb[j].id
(***************************************************************************)
(* Claims on functions that keep no state                                  *)
(***************************************************************************)
(***************************************************************************)
(* C24: describePriceRow renders a row of the hosting category that has no *)
(* price into a text that contains "Price on request" and the statement    *)
(* that hosting applies only to miners, whatever the letter case of the    *)
(* category.                                                               *)
(***************************************************************************)
C24_HostingRowRendered ==
    (/\ callFn = "describePriceRow"
     /\ callRet.done
     /\ ToLower(callArg.row.category) = <<"h", "o", "s", "t", "i", "n", "g">>
     /\ ~Filled(callArg.row.price_usd)) =>
        /\ Includes(callRet.value, <<"P", "r", "i", "c", "e", " ", "o", "n", " ", "r", "e", "q", "u", "e", "s", "t">>)
        /\ Includes(callRet.value, <<"H", "o", "s", "t", "i", "n", "g", " ", "a", "p", "p", "l", "i", "e", "s", " ", "O", "N", "L", "Y", " ", "t", "o", " ", "m", "i", "n", "e", "r", "s">>)

(***************************************************************************)
(* C25: the similarity to an entry whose embedding is empty or all-zero is *)
(* a finite value, and it is the minimum score: no entry with a non-zero   *)
(* embedding gets a lower similarity to the same query.                    *)
(***************************************************************************)
\* v is empty or holds zeros only
ZeroVector(v) == \A i \in 1..Len(v) : v[i] = 0

C25_ZeroSimilarityIsMinimum ==
    (/\ callFn = "cosineSim"
     /\ callRet.done
     /\ ZeroVector(callArg.first)
     /\ ~ZeroVector(callArg.second)) =>
        /\ callRet.value[1] \in Int
        /\ callRet.value[2] >= callRet.value[1]

\* paragraphs a..b joined as chunkText joins them
RangeText(paragraphs, a, b) == Join(SubSeq(paragraphs, a, b), ParagraphSep)

\* with chunks starting at paragraph 1 and at the paragraphs of S: the
\* last paragraph of the chunk that starts at a
RangeEnd(n, S, a) == Least({t \in S : t > a} \cup {n + 1}) - 1

\* the start of the chunk before the one that starts at s
RangeBefore(S, s) == Greatest({t \in S \cup {1} : t < s})

\* the chunks that result: each range joined (and trimmed, if trimmed),
\* blank ones left out
RECURSIVE ChunksFrom(_, _, _, _)
ChunksFrom(paragraphs, S, a, trimmed) ==
    IF a > Len(paragraphs) THEN <<>>
    ELSE LET b == RangeEnd(Len(paragraphs), S, a)
             c == RangeText(paragraphs, a, b)
         IN  (IF Trim(c) = <<>> THEN <<>>
              ELSE IF trimmed THEN <<Trim(c)>> ELSE <<c>>)
                 \o ChunksFrom(paragraphs, S, b + 1, trimmed)

\* chunks is a greedy packing of whole paragraphs: there are chunk starts S
\* that give chunks, such that a paragraph starts a chunk only if the chunk
\* before it, with the paragraph appended, is longer than the budget, and
\* a chunk longer than the budget holds one non-blank paragraph
GreedyPacking(paragraphs, chunks, maxChars, trimmed) ==
    LET n == Len(paragraphs)
    IN  \E S \in SUBSET (2..n) :
            /\ chunks = ChunksFrom(paragraphs, S, 1, trimmed)
            /\ \A s \in S :
                  Len(RangeText(paragraphs, RangeBefore(S, s), s)) > maxChars
            /\ \A a \in S \cup {1} :
                  LET b == RangeEnd(n, S, a)
                  IN  Len(Trim(RangeText(paragraphs, a, b))) > maxChars
                      => Cardinality({k \in a..b :
                             Trim(paragraphs[k]) /= <<>>}) = 1

(***************************************************************************)
(* C30: the chunks chunkText returns are, in order, the joins of           *)
(* consecutive whole paragraphs of the text, every non-blank paragraph in  *)
(* exactly one of them; a paragraph starts a new chunk only if the chunk   *)
(* before it, with the paragraph appended, is longer than the budget; and  *)
(* a chunk longer than the budget holds one paragraph.                     *)
(***************************************************************************)
C30_ChunksAreJoinsOfWholeParagraphs ==
    (callFn = "chunkText" /\ callRet.done) =>
        GreedyPacking(SplitParagraphs(callArg.text), callRet.value,
                      ChunkBudget, FALSE)

(***************************************************************************)
(* C30, amended: the same, each chunk being the join of its paragraphs     *)
(* with the whitespace at its two ends removed.                            *)
(***************************************************************************)
C30_ChunksAreTrimmedJoins ==
    (callFn = "chunkText" /\ callRet.done) =>
        GreedyPacking(SplitParagraphs(callArg.text), callRet.value,
                      ChunkBudget, TRUE)

\* two paragraphs that do not fit one chunk, the first of them indented:
\* two chunks, the first one shorter than its paragraph
C30_Witness ==
    /\ callFn = "chunkText" /\ callRet.done
    /\ Len(SplitParagraphs(callArg.text)) = 2
    /\ Len(callRet.value) = 2
    /\ Len(callRet.value[1]) < Len(SplitParagraphs(callArg.text)[1])

\* the user turns of a transcript that an agent turn follows immediately
MergedPairs(chats) ==
    {i \in 1..(Len(chats) - 1) :
        chats[i].role = <<"u", "s", "e", "r">> /\ chats[i + 1].role = <<"a", "g", "e", "n", "t">>}

\* the turns that open a unit: all but the agent turns of merged pairs
UnitHeads(chats) ==
    {i \in 1..Len(chats) : (i - 1) \notin MergedPairs(chats)}

\* the k-th smallest member of a set of numbers
RECURSIVE Kth(_, _)
Kth(S, k) == IF k = 1 THEN Least(S) ELSE Kth(S \ {Least(S)}, k - 1)

(***************************************************************************)
(* C31: the units buildChatEntries makes of a transcript are, in order of  *)
(* the turns, one question+answer unit per user turn that an agent turn    *)
(* follows immediately, with the text and the timestamps of both, and one  *)
(* standalone unit with its own timestamp per turn that is in no such      *)
(* pair; so there are as many units as turns less merged pairs.            *)
(***************************************************************************)
C31_EveryTurnInOneUnit ==
    (callFn = "buildChatEntries" /\ callRet.done) =>
        LET chats == callArg.chats
            units == callRet.value
        IN  /\ Len(units) = Len(chats) - Cardinality(MergedPairs(chats))
            /\ \A k \in 1..Len(units) :
                  LET i == Kth(UnitHeads(chats), k)
                  IN  IF i \in MergedPairs(chats)
                      THEN /\ units[k].meta.type = "qa_pair"
                           /\ units[k].meta.user_timestamp
                                  = chats[i].timestamp
                           /\ units[k].meta.agent_timestamp
                                  = chats[i + 1].timestamp
                           /\ units[k].text =
                                  <<"U", "s", "e", "r", ":", " ">> \o chats[i].content
                                      \o <<"\n">> \o <<"A", "g", "e", "n", "t", ":", " ">>
                                      \o chats[i + 1].content
                      ELSE /\ units[k].meta.type = "single_message"
                           /\ units[k].meta.timestamp = chats[i].timestamp
                           /\ units[k].text =
                                  ToUpper(chats[i].role) \o <<":", " ">>
                                      \o chats[i].content

\* a transcript of a lone turn, a merged pair and an agent turn after it:
\* four turns, three units
C31_Witness ==
    /\ callFn = "buildChatEntries" /\ callRet.done
    /\ Len(callArg.chats) = 4
    /\ Len(callRet.value) = 3
    /\ callRet.value[1].meta.type = "single_message"
    /\ callRet.value[2].meta.type = "qa_pair"
    /\ callRet.value[2].meta.user_timestamp
           /= callRet.value[2].meta.agent_timestamp
    /\ callArg.chats[4].role = <<"a", "g", "e", "n", "t">>

\* the requests and throttle sleeps of embedAll as described: text by text
\* in order, a sleep after every full batch that is not the last
RECURSIVE DescribedEvents(_, _, _)
DescribedEvents(n, size, i) ==
    IF i >= n THEN <<>>
    ELSE <<[op |-> "embed", arg |-> i]>>
             \o (IF (i + 1) % size = 0 /\ i + 1 < n
                 THEN <<[op |-> "sleep", arg |-> BATCH_THROTTLE_MS]>>
                 ELSE <<>>)
             \o DescribedEvents(n, size, i + 1)

\* the events of a log other than the short sleeps inside a batch
BatchLevel(log) ==
    SelectSeq(log, LAMBDA e : ~(e.op = "sleep" /\ e.arg = 120))

(***************************************************************************)
(* C32: embedAll ends for every number of texts and every configured batch *)
(* size: each iteration of its loop moves past at least one text; and when *)
(* it returns, it has requested every text once, in order, has slept the   *)
(* throttle delay after every batch but the last, and returns vector i for *)
(* text i.                                                                 *)
(***************************************************************************)
C32_EmbedAllBatchesAndEnds ==
    [][callFn = "embedAll" =>
          /\ callLocal' /= callLocal =>
                callLocal'.start > callLocal.start
          /\ callRet'.done =>
                /\ \A k \in 0..(callArg.n - 1) : callRet'.value[k] = k
                /\ BatchLevel(callLocal'.log)
                       = DescribedEvents(callArg.n, callArg.size, 0)]_vars

\* the maximal runs of [a-z0-9] in q, as <<first, last>> positions
AlnumRuns(q) ==
    {r \in (1..Len(q)) \X (1..Len(q)) :
        /\ r[1] <= r[2]
        /\ \A k \in r[1]..r[2] : q[k] \in LowerAlnum
        /\ (r[1] = 1 \/ q[r[1] - 1] \notin LowerAlnum)
        /\ (r[2] = Len(q) \/ q[r[2] + 1] \notin LowerAlnum)}

(***************************************************************************)
(* C33: the lexical score of an entry (in halves) is two per maximal       *)
(* alphanumeric run of the lower-cased query that has at least two         *)
(* characters and occurs in the entry's lower-cased source, text and       *)
(* serialized metadata, plus three exactly when the entry is of the price  *)
(* sheet and the query contains a pricing keyword.                         *)
(***************************************************************************)
C33_LexicalScoreCountsTerms ==
    (callFn = "lexicalRetrieve" /\ callRet.done) =>
        LET q     == ToLower(callArg.query)
            entry == callArg.entry
            hay   == ToLower(entry.source \o <<"\n">> \o entry.text
                             \o <<"\n">> \o JsonStringify(entry.metadata))
            found == {r \in AlnumRuns(q) :
                         /\ r[2] - r[1] + 1 >= 2
                         /\ Includes(hay, SubSeq(q, r[1], r[2]))}
            bonus == /\ entry.source = <<"p", "r", "i", "c", "e", "_", "s", "h", "e", "e", "t">>
                     /\ \E w \in PricingKeywords : Includes(q, w)
        IN  callRet.value
                = 2 * Cardinality(found) + (IF bonus THEN 3 ELSE 0)

\* a query of a one-character term and two terms found in a price entry:
\* two points and the bonus
C33_Witness ==
    /\ callFn = "lexicalRetrieve" /\ callRet.done
    /\ callArg.query = <<"a", " ", "S", "1", "9", " ", "p", "r", "i", "c", "e">>
    /\ callArg.entry.source = <<"p", "r", "i", "c", "e", "_", "s", "h", "e", "e", "t">>
    /\ callRet.value = 7

\* the lower-cased value of a metadata field is not empty and occurs in the
\* lower-cased query
FieldInQuery(entry, name, query) ==
    LET v == ToLower(MetaGet(entry.metadata, name))
    IN  v /= <<>> /\ Includes(ToLower(query), v)

(***************************************************************************)
(* C34: on the vector path the score of an entry (in hundredths) is its    *)
(* cosine similarity plus 4 when its model_name and plus 2 when its        *)
(* product_id occurs in the query, and nothing else: never below the       *)
(* similarity and never more than 6 above it.                              *)
(***************************************************************************)
C34_BoostsAdditiveAndSmall ==
    (callFn = "vectorScore" /\ callRet.done) =>
        LET boost == callRet.value.score - callRet.value.sim
        IN  /\ boost =
                  (IF FieldInQuery(callArg.entry, <<"m", "o", "d", "e", "l", "_", "n", "a", "m", "e">>,
                                   callArg.query) THEN 4 ELSE 0)
                + (IF FieldInQuery(callArg.entry, <<"p", "r", "o", "d", "u", "c", "t", "_", "i", "d">>,
                                   callArg.query) THEN 2 ELSE 0)
            /\ boost >= 0
            /\ boost <= 6

\* the text says of the field called name that it is on request or
\* unavailable
SaidMissing(text, name) ==
    \E phrase \in {<<"o", "n", " ", "r", "e", "q", "u", "e", "s", "t">>, <<"u", "n", "a", "v", "a", "i", "l", "a", "b", "l", "e">>},
       sep \in {<<" ">>, <<":", " ">>} :
        Includes(ToLower(text), name \o sep \o phrase)

(***************************************************************************)
(* C35: describePriceRow says of every numeric field of the row that is    *)
(* blank or absent (price, stock, hashrate, efficiency) that it is on      *)
(* request or unavailable.                                                 *)
(***************************************************************************)
C35_MissingFieldsSaid ==
    (callFn = "describePriceRow" /\ callRet.done) =>
        /\ ~Filled(callArg.row.price_usd)
              => SaidMissing(callRet.value, <<"p", "r", "i", "c", "e">>)
        /\ ~Filled(callArg.row.stock)
              => SaidMissing(callRet.value, <<"s", "t", "o", "c", "k">>)
        /\ ~Filled(callArg.row.hashrate_ths)
              => SaidMissing(callRet.value, <<"h", "a", "s", "h", "r", "a", "t", "e">>)
        /\ ~Filled(callArg.row.efficiency_j_th)
              => SaidMissing(callRet.value, <<"e", "f", "f", "i", "c", "i", "e", "n", "c", "y">>)

(***************************************************************************)
(* Claims about the chat handler.                                          *)
(***************************************************************************)
\* the configured generation model: GEMINI_MODEL without surrounding
\* whitespace and without a leading "models/", the default when that is
\* empty
ConfiguredModel(env) ==
    IF normalizeModelName(env) = <<>> THEN DEFAULT_MODEL
    ELSE normalizeModelName(env)

\* the order in which the models are to be tried
ExpectedOrder(env) ==
    <<ConfiguredModel(env)>>
        \o SelectSeq(FALLBACK_MODELS, LAMBDA m : m /= ConfiguredModel(env))

\* the statuses after which the next candidate is tried
MovesOn == {404, 429}

\* what C39 says of a state of the handler
TriesInOrderAndAnswersOnce ==
    LET tried == callLocal.tried
        n     == Len(tried)
        sent  == callLocal.sent
    IN  /\ Len(sent) <= 1
        /\ (callLocal.pc = "done") = (Len(sent) = 1)
        /\ n <= Len(ExpectedOrder(callArg.envModel))
        /\ \A k \in 1..n : tried[k].model = ExpectedOrder(callArg.envModel)[k]
        /\ \A j, k \in 1..n : tried[j].model = tried[k].model => j = k
        /\ \A k \in 1..(n - 1) : tried[k].status \in MovesOn
        /\ (callLocal.pc = "generate" /\ n > 0) => tried[n].status \in MovesOn
        /\ (callLocal.pc = "done" /\ callLocal.retrievals > 0) =>
              IF n > 0 /\ tried[n].status = -1
              THEN /\ sent[1].status = 200
                   /\ sent[1].model = tried[n].model
              ELSE /\ sent[1].status = 500
                   /\ n > 0 =>
                        /\ sent[1].details.status = tried[n].status
                        /\ tried[n].status /= 0 => sent[1].details = lastErr
                        /\ tried[n].status \in MovesOn =>
                               n = Len(ExpectedOrder(callArg.envModel))

\* what C39 says of a step of the handler: a candidate is given up with a
\* 429 only after withRetry has called it 1 + 6 times
GivenUpAfterRetries ==
    (/\ Len(callLocal'.tried) > Len(callLocal.tried)
     /\ callLocal'.tried[Len(callLocal'.tried)].status = 429)
        => nCalls = HandlerMaxRetries + 1

(***************************************************************************)
(* C39: the handler tries the candidate models in order, the configured    *)
(* model first and no model twice; it goes on to the next candidate after  *)
(* a 404 and after a 429 that withRetry gave up on, and stops after any    *)
(* other error; the request is answered exactly once, by a 200 that names  *)
(* the first model that replied, or else by a 500 that carries the last    *)
(* error.                                                                  *)
(***************************************************************************)
C39_CandidatesInOrderOneResponse ==
    /\ [](callFn = "handler" => TriesInOrderAndAnswersOnce)
    /\ [][callFn = "handler" => GivenUpAfterRetries]_vars
    /\ <>(callFn = "handler" => callLocal.pc = "done")

\* a 200 from the third candidate, after a 404 of the configured model and
\* a 429 of the second
C39_Witness ==
    /\ callFn = "handler" /\ callLocal.pc = "done"
    /\ Len(callLocal.tried) = 3
    /\ callLocal.tried[1].status = 404
    /\ callLocal.tried[1].model = <<"c", "u", "s", "t", "o", "m">>
    /\ callLocal.tried[2].status = 429
    /\ callLocal.tried[3].status = -1
    /\ callLocal.sent = <<Response(200, FALLBACK_MODELS[2], NoErr)>>

\* the status the handler is to answer a request with before it retrieves
\* anything (0: none, the request is served)
RefusalStatus(req) ==
    IF req.method /= "POST" THEN 405
    ELSE IF req.messages = <<>> THEN 400
    ELSE IF \A i \in 1..Len(req.messages[Len(req.messages)].content) :
                req.messages[Len(req.messages)].content[i] \in Whitespace
    THEN 400
    ELSE 0

(***************************************************************************)
(* C40: a request whose method is not POST is answered 405, a POST with    *)
(* an empty message list 400, and a POST whose last message is blank once  *)
(* trimmed 400; for none of them the handler calls                         *)
(* retrieveRelevantContext or the provider.                                *)
(***************************************************************************)
C40_RefusedWithoutRetrievalOrCall ==
    (callFn = "handler" /\ RefusalStatus(callArg) /= 0) =>
        /\ callLocal.retrievals = 0
        /\ callLocal.tried = <<>>
        /\ rpc = "idle" /\ nCalls = 0
        /\ callLocal.pc \in {"start", "done"}
        /\ callLocal.pc = "done" =>
              /\ Len(callLocal.sent) = 1
              /\ callLocal.sent[1].status = RefusalStatus(callArg)

\* a POST of three messages, the last of which is a tab and a newline, has
\* been answered 400
C40_Witness ==
    /\ callFn = "handler" /\ callLocal.pc = "done"
    /\ callArg.method = "POST"
    /\ Len(callArg.messages) = 3
    /\ callArg.messages[3].content = <<"\t", "\n">>
    /\ callLocal.sent = <<Response(400, <<>>, NoErr)>>
    /\ callLocal.retrievals = 0
(***************************************************************************)
(* Properties of the retry wrappers.                                       *)
(***************************************************************************)
TransientStatuses == {429, 500, 503}

\* C7: in withRetry of chat.ts (generation calls) and of lib/rag.ts
\* (embedding calls), a failed call is followed by a sleep only when its
\* status is 429, 500 or 503, and a failure with one of these statuses is
\* given up only once attempt exceeds maxRetries; any other error is thrown
\* at once.
C7_RetryExactlyTransient ==
    rImpl \in {"chat", "rag"} =>
        /\ rpc = "sleep" => lastErr.status \in TransientStatuses
        /\ (rpc = "thrown" /\ lastErr.status \in TransientStatuses)
               => attempt > maxRetries

\* C8: withRetry of chat.ts never calls fn more than maxRetries + 1 times;
\* against a provider that fails every call with 429, 500 or 503 it throws
\* after exactly maxRetries + 1 calls (maxRetries retries) the error it
\* received last; and every run of it ends, returned or thrown.
C8_BoundedRetries ==
    /\ [](rImpl = "chat" =>
            /\ nCalls <= maxRetries + 1
            /\ (rpc = "thrown" /\ allRetryable) =>
                   (nCalls = maxRetries + 1 /\ thrownErr = lastErr))
    /\ ((rImpl = "chat" /\ rpc = "call") ~> (rpc \in {"returned", "thrown"}))

\* C8 witness: six retries (seven calls) of retryable failures, then thrown
C8_Witness ==
    /\ rImpl = "chat" /\ maxRetries = 6 /\ rpc = "thrown"
    /\ allRetryable /\ nCalls = 7 /\ thrownErr.status = 503

\* C9: in withRetry (chat.ts and lib/rag.ts), when the error that is about
\* to be retried carries the provider's hint "retry after N seconds", the
\* sleep before the next attempt lasts (N + 1) seconds, at every attempt.
C9_HintedDelay ==
    (rImpl \in {"chat", "rag"} /\ rpc = "sleep" /\ hintN >= 0)
        => backoffMs = (hintN + 1) * 1000

\* C9 witness: in lib/rag.ts a third failure, hinted "5s", is slept 6000 ms
C9_Witness ==
    /\ rImpl = "rag" /\ rpc = "sleep"
    /\ hintN = 5 /\ attempt = 3 /\ backoffMs = 6000

\* C10: in withRetry of chat.ts and embedWithRetry of lib/rag.ts, when the
\* error that is about to be retried carries no hint, the sleep before
\* retry number k (k = attempt) lasts min(60 s, 1 s * 2^k).
C10_ExponentialBackoff ==
    (rImpl \in {"chat", "embed"} /\ rpc = "sleep" /\ ~lastErr.hasDetails)
        => backoffMs = Min(60000, 1000 * (2 ^ attempt))


(***************************************************************************)
(* C26: retrieval honours cancellation: once the caller has cancelled      *)
(* while a provider call or a backoff sleep of withRetry is in flight, the *)
(* run is abandoned: no sleep is followed by another provider call and no  *)
(* provider result is returned as if nothing had happened.                 *)
(***************************************************************************)
C26_CancelledRunAbandoned ==
    [][(rImpl = "rag" /\ cancelled) =>
          /\ ~(rpc = "sleep" /\ rpc' = "call")
          /\ ~(rpc = "call" /\ rpc' = "sleep")]_vars

(***************************************************************************)
(* C36: every backoff sleep of a retry wrapper is preceded by one line of  *)
(* the log that carries the attempt number and the delay: the step from    *)
(* the failed call to the sleep writes exactly one line, with the attempt  *)
(* counted and the delay computed in that step.                            *)
(***************************************************************************)
C36_EveryRetryLogged ==
    [][(rpc = "call" /\ rpc' = "sleep") =>
          /\ warned'.n = warned.n + 1
          /\ warned'.attempt = attempt'
          /\ warned'.seconds * 1000 = backoffMs']_vars
=============================================================================
